---- MODULE Spec2Model ----
(***************************************************************************)
(* A model of the submission pipeline of the repository:                   *)
(*   - submit.py: the versioned upload scheduler (main), the parallel      *)
(*     attempt (upload_experiment_data), the single transfer with its      *)
(*     retry loop (upload_file_to_supabase), the version ledger            *)
(*     (get_upload_path_from_version, update_manifest_version);            *)
(*   - merge_sessions.py: the merge of the session logs of one lane.       *)
(* Strings whose characters matter (paths, task ids) are sequences of      *)
(* one-character strings; a Python dict is a function whose DOMAIN is the  *)
(* set of its keys; an optional value (None or a value) is a sequence of   *)
(* length 0 or 1.                                                          *)
(***************************************************************************)
EXTENDS Integers, Sequences, FiniteSets, TLC

\* ------------------------------------------------------------------ bounds
\* number of files get_file_list_for_upload returns
NumFiles == 2
\* the manifest at start records no version, or one of 0..MaxStartVersion
MaxStartVersion == 0

\* ------------------------------------------------------- program constants
max_attempts_Six == 5 + 1

max_attempts == 5
max_upload_retries_Four == 3 + 1

max_upload_retries == 3
max_workers_Six == 5 + 1
max_workers_None == 5 - 5

max_workers == 5

\* ----------------------------------------------------------------- helpers
None == <<>>
Some(v) == <<v>>

\* dict.get(key) -> None or the value
DictGet(d, key) == IF key \in DOMAIN d THEN Some(d[key]) ELSE None

\* d[key] = value, adding the key when it is absent
DictSet(d, key, value) ==
    [k \in DOMAIN d \cup {key} |-> IF k = key THEN value ELSE d[k]]

DigitChars == <<"0", "1", "2", "3", "4", "5", "6", "7", "8", "9">>

\* str(n) of a non-negative int, as the f-strings format it
RECURSIVE StrInt(_)
StrInt(n) ==
    IF n < 10 THEN <<DigitChars[n + 1]>>
    ELSE StrInt(n \div 10) \o <<DigitChars[(n % 10) + 1]>>

\* s.replace('\\', '/')
ReplaceBackslash(s) == [i \in 1..Len(s) |-> IF s[i] = "\\" THEN "/" ELSE s[i]]

\* ---------------------------------------------------------- version ledger
get_upload_path_from_version_NoSuffix(sprint_folder_, task_id_, version) ==
    sprint_folder_ \o <<"/">> \o task_id_

get_upload_path_from_version(sprint_folder_, task_id_, version) ==
    IF version = 0
    THEN sprint_folder_ \o <<"/">> \o task_id_
    ELSE sprint_folder_ \o <<"/">> \o task_id_ \o <<"_", "v">> \o StrInt(version)

\* a file opened for writing whose content was not written: no JSON document
TruncatedFile == <<>>

\* update_manifest_version losing a field of the document it read
update_manifest_version_DropField(manifest, new_version) ==
    [k \in (DOMAIN manifest \ {"expert_name"}) \cup {"last_submission_version"} |->
        IF k = "last_submission_version" THEN new_version ELSE manifest[k]]

\* update_manifest_version recording the version after the given one
update_manifest_version_OffByOne(manifest, new_version) ==
    DictSet(manifest, "last_submission_version", new_version + 1)

\* the manifest written back by update_manifest_version when nothing fails
update_manifest_version(manifest, new_version) ==
    DictSet(manifest, "last_submission_version", new_version)

\* main: the version of the first attempt
NextVersion_NoIncrement(last_version_) ==
    IF last_version_ = None THEN 0 ELSE last_version_[1]

NextVersion(last_version_) ==
    IF last_version_ = None THEN 0 ELSE last_version_[1] + 1

\* ------------------------------------------------------- artifact transfer
\* What one try of uploader.upload() (or the stat before the loop) does: it
\* returns, or raises an exception of a class with a message; `words` are the
\* substrings of the lower-cased message the code looks for, `kind` is what
\* really happened (the code does not see it).
NoError == [kind |-> "none", cls |-> "none", words |-> {}]
ErrConnection ==
    [kind |-> "network", cls |-> "ConnectionError", words |-> {"connection", "reset"}]
ErrTusTimeout ==
    [kind |-> "network", cls |-> "TusCommunicationError", words |-> {"timeout"}]
ErrForbidden ==
    [kind |-> "authorization", cls |-> "TusUploadFailed", words |-> {"403", "forbidden"}]
ErrConflict ==
    [kind |-> "conflict", cls |-> "TusUploadFailed", words |-> {"409", "conflict"}]
ErrServer == [kind |-> "other", cls |-> "TusUploadFailed", words |-> {"500"}]
ErrFileNotFound ==
    [kind |-> "other", cls |-> "FileNotFoundError", words |-> {"no such file"}]

NetworkKeywords == {"ssl", "connection", "timeout", "network", "refused", "reset"}

\* except (ConnectionError, OSError, TimeoutError)
IsNetworkException(e) ==
    e.cls \in {"ConnectionError", "OSError", "TimeoutError", "FileNotFoundError"}

\* the generic except of the loop: a network keyword in the message
HasNetworkKeyword(e) == e.words \cap NetworkKeywords # {}

IsTransient(e) == IsNetworkException(e) \/ HasNetworkKeyword(e)

\* the outer except: the error code of an exception that left the loop
ErrorCode_ConflictIsOther(e) ==
    IF "403" \in e.words \/ "forbidden" \in e.words THEN "403" ELSE "other"

ErrorCode_ForbiddenIsOther(e) ==
    IF "409" \in e.words \/ "conflict" \in e.words THEN "409" ELSE "other"

ErrorCode(e) ==
    IF "403" \in e.words \/ "forbidden" \in e.words THEN "403"
    ELSE IF "409" \in e.words \/ "conflict" \in e.words THEN "409"
    ELSE "other"

\* the for loop over range(max_upload_retries); `tries` is what each try
\* does, `sleeps` the backoff delays slept so far; the result is the returned
\* tuple (success, error_code), with the number of tries made, the delays
\* slept and `cause`, the kind of what ended the transfer
RECURSIVE RetryLoop_RetryAll(_, _, _)
RetryLoop_RetryAll(tries, retry_attempt, sleeps) ==
    IF retry_attempt >= max_upload_retries \/ retry_attempt >= Len(tries)
    THEN [success |-> FALSE, error_code |-> "other", cause |-> "network",
          n_tries |-> retry_attempt, sleeps |-> sleeps]
    ELSE LET e == tries[retry_attempt + 1] IN
         IF e = NoError
         THEN [success |-> TRUE, error_code |-> "none", cause |-> e.kind,
               n_tries |-> retry_attempt + 1, sleeps |-> sleeps]
         ELSE IF retry_attempt < max_upload_retries - 1
         THEN RetryLoop_RetryAll(tries, retry_attempt + 1,
                                 Append(sleeps, 2 ^ retry_attempt))
         ELSE [success |-> FALSE,
               error_code |-> IF IsTransient(e) THEN "other" ELSE ErrorCode(e),
               cause |-> e.kind, n_tries |-> retry_attempt + 1, sleeps |-> sleeps]

backoff_delay_Constant(retry_attempt) == 1

\* backoff_delay = 2 ** retry_attempt
backoff_delay(retry_attempt) == 2 ^ retry_attempt

RECURSIVE RetryLoop(_, _, _)
RetryLoop(tries, retry_attempt, sleeps) ==
    IF retry_attempt >= max_upload_retries \/ retry_attempt >= Len(tries)
    THEN [success |-> FALSE, error_code |-> "other", cause |-> "network",
          n_tries |-> retry_attempt, sleeps |-> sleeps]
    ELSE LET e == tries[retry_attempt + 1] IN
         IF e = NoError
         THEN [success |-> TRUE, error_code |-> "none", cause |-> e.kind,
               n_tries |-> retry_attempt + 1, sleeps |-> sleeps]
         ELSE IF IsTransient(e)
         THEN IF retry_attempt < max_upload_retries - 1
              THEN RetryLoop(tries, retry_attempt + 1,
                             Append(sleeps, backoff_delay(retry_attempt)))
              ELSE [success |-> FALSE, error_code |-> "other", cause |-> e.kind,
                    n_tries |-> retry_attempt + 1, sleeps |-> sleeps]
         ELSE [success |-> FALSE, error_code |-> ErrorCode(e), cause |-> e.kind,
               n_tries |-> retry_attempt + 1, sleeps |-> sleeps]

\* upload_file_to_supabase: env.stat is what file_path.stat() does, env.tries
\* what the tries do
upload_file_to_supabase(env) ==
    IF env.stat # NoError
    THEN [success |-> FALSE, error_code |-> ErrorCode(env.stat),
          cause |-> env.stat.kind, n_tries |-> 0, sleeps |-> <<>>]
    ELSE RetryLoop(env.tries, 0, <<>>)

\* ------------------------------------------------------------ upload state
VARIABLES
    manifest_file,          \* manifest.json on disk, a dict
    sprint_folder,          \* sprint_config["submission"]["sprint_folder"]
    task_id,                \* manifest["task_id"]
    last_version,           \* main: manifest.get("last_submission_version")
    pc,                     \* main's position
    attempt,                \* main: the loop index
    attempt_version,        \* main
    upload_path,            \* main
    upload_files,           \* main: the file list of the attempt
    tasks,                  \* upload_experiment_data: the futures, by index
    uploaded_count,         \* upload_experiment_data
    failed_files,           \* upload_experiment_data
    conflict_error_codes,   \* upload_experiment_data
    persist_result,         \* what update_manifest_version returned: none/ok/failed
    upload_successful,      \* main
    final_upload_path,      \* main, None or a path
    final_version,          \* main, None or a version
    attempt_log,            \* history: one record per evaluated attempt
    temp_files              \* snapshots.zip and submission_summary.json on disk

upload_vars == <<manifest_file, sprint_folder, task_id, last_version, pc, attempt,
                 attempt_version, upload_path, upload_files, tasks, uploaded_count,
                 failed_files, conflict_error_codes, persist_result,
                 upload_successful, final_upload_path, final_version, attempt_log,
                 temp_files>>

\* ------------------------------------------------------------- merge state
VARIABLES
    lane_dir,               \* the files session_*.jsonl of the lane directory
    backup_dir,             \* the files of original_sessions/
    backup_exists,          \* whether original_sessions/ exists
    m_pc,                   \* merge_sessions' position
    processed_files,        \* find_session_files: the consolidated files, by sid
    raw_files,              \* find_session_files: the matched raw files, by sid
    all_session_data,       \* merge_sessions
    merged,                 \* merge_sessions: the merged records, None before
    merge_result            \* what merge_sessions returned: none/true/false

merge_vars == <<lane_dir, backup_dir, backup_exists, m_pc, processed_files,
                raw_files, all_session_data, merged, merge_result>>

\* -------------------------------------------------------- experiment state
VARIABLES
    target,                 \* what main was given: an experiment root or a lane
    logs_exists,            \* whether experiment_root/logs exists
    logs_dir,               \* logs/model_a and logs/model_b: [exists, files,
                            \* backup, backup_exists]
    x_pc,                   \* main's and merge_experiment's position
    lane_no,                \* the index of `model` in the for loop
    results,                \* merge_experiment: results, "None"/"True"/"False"
    lane_message,           \* what was printed for each lane in the loop
    summary_lines,          \* the lines of MERGE SUMMARY
    exit_status             \* how the process ended: none/0/1/exception

experiment_vars == <<target, logs_exists, logs_dir, x_pc, lane_no, results,
                     lane_message, summary_lines, exit_status>>

\* ---------------------------------------------------------- transfer state
VARIABLES
    t_env,                  \* what the file system and the network do to one
                            \* call of upload_file_to_supabase
    t_pc,                   \* called / returned
    t_result                \* what the call returned

transfer_vars == <<t_env, t_pc, t_result>>

\* ------------------------------------------------------- worker pool state
VARIABLES
    pool,                   \* the futures of the ThreadPoolExecutor, in the
                            \* order of upload_files
    pool_pc                 \* upload_experiment_data's position

pool_vars == <<pool, pool_pc>>

\* -------------------------------------------------------- validation state
VARIABLES
    v_fs,                   \* the working directory validation looks at
    v_pc,                   \* called / passed / exited
    v_result                \* the error message, if validation exited

validate_vars == <<v_fs, v_pc, v_result>>

\* ------------------------------------------------- state across invocations
VARIABLES
    prior_uploads           \* the versions at which an earlier invocation of
                            \* submit.py in this directory uploaded a file

run_vars == <<prior_uploads>>

\* ------------------------------------------------------ remote path state
VARIABLES
    p_call,                 \* the arguments of two calls of
                            \* get_upload_path_from_version
    p_pc,                   \* called / returned
    p_paths                 \* the two paths returned

path_vars == <<p_call, p_pc, p_paths>>

other_vars == <<transfer_vars, pool_vars, validate_vars, run_vars, path_vars>>

not_upload_vars == <<merge_vars, experiment_vars, other_vars>>
not_merge_vars == <<upload_vars, experiment_vars, other_vars>>

vars == <<upload_vars, merge_vars, experiment_vars, other_vars>>

\* ------------------------------------------------------------- upload input
ManifestJson == <<"m", "a", "n", "i", "f", "e", "s", "t", ".", "j", "s", "o", "n">>
SnapshotsZip == <<"s", "n", "a", "p", "s", "h", "o", "t", "s", ".", "z", "i", "p">>
\* str(log_file) and str(config_file) as the platform gives them
LogFilePath == <<"l", "o", "g", "s", "\\", "a", ".", "j", "s", "o", "n", "l">>
ConfigFilePath == <<"m", "o", "d", "e", "l", "_", "a", "\\", ".", "c", "l", "a", "u", "d", "e", "\\", "c", ".", "j", "s", "o", "n">>

SprintFolders == {<<"s", "1">>}
TaskIds == {<<"T">>}

\* get_file_list_for_upload: the manifest first, then the logs, the snapshots
\* archive and the configuration files that exist
get_file_list_for_upload ==
    SubSeq(<<ManifestJson, ReplaceBackslash(LogFilePath), SnapshotsZip,
             ReplaceBackslash(ConfigFilePath)>>, 1, NumFiles)

SubmissionSummaryJson == <<"s", "u", "m", "m", "a", "r", "y", ".", "j", "s", "o", "n">>

\* create_snapshots_zip: the archive written while the file list is built
create_snapshots_zip ==
    {f \in {SnapshotsZip} :
        \E i \in DOMAIN get_file_list_for_upload : get_file_list_for_upload[i] = f}

\* what create_snapshots_zip leaves on disk: the archive it returns; when it
\* returns none (ZipFile or a write raised) nothing, or the file ZipFile had
\* opened for writing
SnapshotsOnDisk ==
    IF create_snapshots_zip # {} THEN {create_snapshots_zip} ELSE {{}, {SnapshotsZip}}

cleanup_temp_files_KeepAll(files) == files

\* cleanup_temp_files: both temporary files are unlinked when they exist
cleanup_temp_files(files) == files \ {SnapshotsZip, SubmissionSummaryJson}

\* the manifests a run can start from
StartManifests ==
    LET base(t) == [task_id |-> t, expert_name |-> "e"] IN
    {base(t) : t \in TaskIds}
    \cup {DictSet(base(t), "last_submission_version", v) :
              t \in TaskIds, v \in 0..MaxStartVersion}

\* what the remote store and the network do to one transfer
TransientErrors == {ErrConnection, ErrTusTimeout}
FinalOutcomes == {NoError, ErrForbidden, ErrConflict, ErrServer}
TrySeqs ==
    {<<x>> : x \in FinalOutcomes}
    \cup {<<t, x>> : t \in TransientErrors, x \in FinalOutcomes}
    \cup {<<t, u, x>> : t \in TransientErrors, u \in TransientErrors,
                        x \in FinalOutcomes \cup TransientErrors}
TransferEnvs ==
    {[stat |-> ErrFileNotFound, tries |-> <<>>]}
    \cup {[stat |-> NoError, tries |-> t] : t \in TrySeqs}

\* what a transfer can return: the tuple (success, error_code), and its cause
TransferResults ==
    {[success |-> upload_file_to_supabase(env).success,
      error_code |-> upload_file_to_supabase(env).error_code,
      cause |-> upload_file_to_supabase(env).cause] : env \in TransferEnvs}

\* ----------------------------------------------------- upload_experiment_data
\* remote_file_path = f"{task_id}/{normalized_file_path}"
RemoteFilePath(path, local_file) == path \o <<"/">> \o ReplaceBackslash(local_file)

NoResult == [success |-> FALSE, error_code |-> "pending", cause |-> "pending"]

NewTasks(path, files) ==
    [i \in 1..Len(files) |->
        [local_file |-> files[i],
         remote_file_path |-> RemoteFilePath(path, files[i]),
         state |-> "pending",
         result |-> NoResult]]

Running == {i \in DOMAIN tasks : tasks[i].state = "running"}

ConflictCodes == {"403", "409"}

\* the returned tuple (success, had_conflict_errors, uploaded_count)
Success == Len(failed_files) = 0
HadConflictErrors_AnyFailure == Len(failed_files) > 0
HadConflictErrors == conflict_error_codes # {}

\* ---------------------------------------------------------------- main
AttemptsLeft(attempt_) == attempt_ < max_attempts - 1

ShouldPersist_OnlyOnSuccess == Success

ShouldPersist == uploaded_count > 0

ShouldRetry_AnyFailure == AttemptsLeft(attempt)

ShouldRetry == HadConflictErrors /\ AttemptsLeft(attempt)

\* history: what the tasks of the evaluated attempt did
AttemptOutcome ==
    IF \A i \in DOMAIN tasks : tasks[i].result.cause = "none" THEN "all_ok"
    ELSE IF \A i \in DOMAIN tasks : tasks[i].result.cause = "conflict"
    THEN "all_conflict"
    ELSE "mixed"

UploadInit ==
    /\ manifest_file \in StartManifests
    /\ sprint_folder \in SprintFolders
    /\ task_id = manifest_file.task_id
    /\ last_version = None
    /\ pc = "start"
    /\ attempt = 0
    /\ attempt_version = 0
    /\ upload_path = <<>>
    /\ upload_files = <<>>
    /\ tasks = <<>>
    /\ uploaded_count = 0
    /\ failed_files = <<>>
    /\ conflict_error_codes = {}
    /\ persist_result = "none"
    /\ upload_successful = FALSE
    /\ final_upload_path = None
    /\ final_version = None
    /\ attempt_log = <<>>
    /\ temp_files = {}

\* lines 685-705: the file list and the version of the first attempt
Prepare ==
    /\ pc = "start"
    /\ upload_files' = get_file_list_for_upload
    /\ last_version' = DictGet(manifest_file, "last_submission_version")
    /\ attempt_version' = NextVersion(last_version')
    /\ upload_path' = get_upload_path_from_version(sprint_folder, task_id, attempt_version')
    /\ \E on_disk \in SnapshotsOnDisk : temp_files' = temp_files \cup on_disk
    /\ pc' = "loop"
    /\ UNCHANGED <<manifest_file, sprint_folder, task_id, attempt, tasks,
                   uploaded_count, failed_files, conflict_error_codes, persist_result,
                   upload_successful, final_upload_path, final_version, attempt_log>>
    /\ UNCHANGED not_upload_vars

\* lines 740-750 and 537-553: the path of the attempt, and every file submitted
StartAttempt ==
    /\ pc = "loop"
    /\ upload_path' = get_upload_path_from_version(sprint_folder, task_id, attempt_version)
    /\ uploaded_count' = 0
    /\ failed_files' = <<>>
    /\ conflict_error_codes' = {}
    /\ tasks' = NewTasks(upload_path', upload_files)
    /\ persist_result' = "none"
    /\ pc' = "uploading"
    /\ UNCHANGED <<manifest_file, sprint_folder, task_id, last_version, attempt,
                   attempt_version, upload_files, upload_successful,
                   final_upload_path, final_version, attempt_log>>
    /\ UNCHANGED <<temp_files, not_upload_vars>>

\* a worker of the pool takes a submitted task
StartTask(i) ==
    /\ pc = "uploading"
    /\ tasks[i].state = "pending"
    /\ Cardinality(Running) < max_workers
    /\ tasks' = [tasks EXCEPT ![i].state = "running"]
    /\ UNCHANGED <<manifest_file, sprint_folder, task_id, last_version, pc, attempt,
                   attempt_version, upload_path, upload_files, uploaded_count,
                   failed_files, conflict_error_codes, persist_result,
                   upload_successful, final_upload_path, final_version, attempt_log>>
    /\ UNCHANGED <<temp_files, not_upload_vars>>

\* lines 556-571: upload_file_to_supabase returns in its worker and
\* as_completed yields the finished future, in the order of completion
CollectResult(i) ==
    /\ pc = "uploading"
    /\ tasks[i].state = "running"
    /\ \E r \in TransferResults :
          /\ tasks' = [tasks EXCEPT ![i].state = "collected", ![i].result = r]
          /\ IF r.success
             THEN /\ uploaded_count' = uploaded_count + 1
                  /\ UNCHANGED <<failed_files, conflict_error_codes>>
             ELSE /\ failed_files' = Append(failed_files, tasks[i].local_file)
                  /\ conflict_error_codes' =
                         IF r.error_code \in ConflictCodes
                         THEN conflict_error_codes \cup {r.error_code}
                         ELSE conflict_error_codes
                  /\ UNCHANGED uploaded_count
    /\ UNCHANGED <<manifest_file, sprint_folder, task_id, last_version, pc, attempt,
                   attempt_version, upload_path, upload_files, persist_result,
                   upload_successful, final_upload_path, final_version, attempt_log>>
    /\ UNCHANGED <<temp_files, not_upload_vars>>

ReturnFromUpload_Streaming ==
    /\ pc = "uploading"
    /\ \E i \in DOMAIN tasks : tasks[i].state = "collected"
    /\ pc' = "persist"
    /\ UNCHANGED <<manifest_file, sprint_folder, task_id, last_version, attempt,
                   attempt_version, upload_path, upload_files, tasks, uploaded_count,
                   failed_files, conflict_error_codes, persist_result,
                   upload_successful, final_upload_path, final_version, attempt_log>>
    /\ UNCHANGED <<temp_files, not_upload_vars>>

\* lines 572-580: the pool is left and the tuple returned
ReturnFromUpload ==
    /\ pc = "uploading"
    /\ \A i \in DOMAIN tasks : tasks[i].state = "collected"
    /\ pc' = "persist"
    /\ UNCHANGED <<manifest_file, sprint_folder, task_id, last_version, attempt,
                   attempt_version, upload_path, upload_files, tasks, uploaded_count,
                   failed_files, conflict_error_codes, persist_result,
                   upload_successful, final_upload_path, final_version, attempt_log>>
    /\ UNCHANGED <<temp_files, not_upload_vars>>

\* lines 752-757: the version is saved when a file was uploaded; the write of
\* manifest.json may fail, which is a warning only: the file is then as it
\* was (it could not be opened) or cut short (json.dump failed after open(w))
PersistVersion ==
    /\ pc = "persist"
    /\ IF ShouldPersist
       THEN /\ \/ /\ manifest_file # TruncatedFile
                  /\ manifest_file' = update_manifest_version(manifest_file, attempt_version)
                  /\ persist_result' = "ok"
               \/ /\ manifest_file' \in {manifest_file, TruncatedFile}
                  /\ persist_result' = "failed"
            /\ final_version' = Some(attempt_version)
       ELSE UNCHANGED <<manifest_file, persist_result, final_version>>
    /\ pc' = "decide"
    /\ UNCHANGED <<sprint_folder, task_id, last_version, attempt, attempt_version,
                   upload_path, upload_files, tasks, uploaded_count, failed_files,
                   conflict_error_codes, upload_successful, final_upload_path,
                   attempt_log>>
    /\ UNCHANGED <<temp_files, not_upload_vars>>

LogEntry == [version |-> attempt_version, upload_path |-> upload_path,
             outcome |-> AttemptOutcome]

\* lines 759-764
DecideSuccess ==
    /\ pc = "decide"
    /\ Success
    /\ upload_successful' = TRUE
    /\ final_upload_path' = Some(upload_path)
    /\ attempt_log' = Append(attempt_log, LogEntry)
    /\ pc' = "summary"
    /\ UNCHANGED <<manifest_file, sprint_folder, task_id, last_version, attempt,
                   attempt_version, upload_path, upload_files, tasks, uploaded_count,
                   failed_files, conflict_error_codes, persist_result, final_version>>
    /\ UNCHANGED <<temp_files, not_upload_vars>>

\* lines 765-773; when range(max_attempts) is used up, lines 782-785
DecideRetry ==
    /\ pc = "decide"
    /\ ~Success
    /\ ShouldRetry
    /\ attempt_version' = attempt_version + 1
    /\ upload_files' = get_file_list_for_upload
    /\ attempt' = attempt + 1
    /\ attempt_log' = Append(attempt_log, LogEntry)
    /\ \E on_disk \in SnapshotsOnDisk : temp_files' = temp_files \cup on_disk
    /\ pc' = IF attempt' < max_attempts THEN "loop" ELSE "exit_failure"
    /\ UNCHANGED <<manifest_file, sprint_folder, task_id, last_version, upload_path,
                   tasks, uploaded_count, failed_files, conflict_error_codes,
                   persist_result, upload_successful, final_upload_path, final_version>>
    /\ UNCHANGED not_upload_vars

\* lines 774-779: print_error exits the process
DecideFail ==
    /\ pc = "decide"
    /\ ~Success
    /\ ~ShouldRetry
    /\ attempt_log' = Append(attempt_log, LogEntry)
    /\ pc' = "exit_failure"
    /\ UNCHANGED <<manifest_file, sprint_folder, task_id, last_version, attempt,
                   attempt_version, upload_path, upload_files, tasks, uploaded_count,
                   failed_files, conflict_error_codes, persist_result,
                   upload_successful, final_upload_path, final_version>>
    /\ UNCHANGED <<temp_files, not_upload_vars>>

\* lines 787-789: manifest.json is read again (read_manifest exits the
\* process when it is no JSON document), then submission_summary.json is
\* written and uploaded
CreateSummary ==
    /\ pc = "summary"
    /\ IF manifest_file = TruncatedFile
       THEN pc' = "exit_failure" /\ UNCHANGED temp_files
       ELSE /\ pc' = "cleanup"
            /\ temp_files' = temp_files \cup {SubmissionSummaryJson}
    /\ UNCHANGED <<manifest_file, sprint_folder, task_id, last_version, attempt,
                   attempt_version, upload_path, upload_files, tasks, uploaded_count,
                   failed_files, conflict_error_codes, persist_result,
                   upload_successful, final_upload_path, final_version, attempt_log>>
    /\ UNCHANGED not_upload_vars

\* lines 791-802: the cleanup and the success message
Finish ==
    /\ pc = "cleanup"
    /\ temp_files' = cleanup_temp_files(temp_files)
    /\ pc' = "exit_success"
    /\ UNCHANGED <<manifest_file, sprint_folder, task_id, last_version, attempt,
                   attempt_version, upload_path, upload_files, tasks, uploaded_count,
                   failed_files, conflict_error_codes, persist_result,
                   upload_successful, final_upload_path, final_version, attempt_log>>
    /\ UNCHANGED not_upload_vars

\* lines 804-807: KeyboardInterrupt reaches main's handler from wherever main
\* is. Raised inside upload_experiment_data it first leaves the with-block of
\* the executor, whose shutdown lets the submitted transfers end; their results
\* are never read. Raised while update_manifest_version writes, it leaves
\* manifest.json as it was or without its content.
Interrupt ==
    /\ pc \notin {"off", "exit_success", "exit_failure", "interrupted"}
    /\ IF pc = "persist" /\ ShouldPersist
       THEN manifest_file' \in {manifest_file, TruncatedFile}
       ELSE UNCHANGED manifest_file
    /\ temp_files' = cleanup_temp_files(temp_files)
    /\ pc' = "interrupted"
    /\ UNCHANGED <<sprint_folder, task_id, last_version, attempt,
                   attempt_version, upload_path, upload_files, tasks, uploaded_count,
                   failed_files, conflict_error_codes, persist_result,
                   upload_successful, final_upload_path, final_version, attempt_log>>
    /\ UNCHANGED not_upload_vars

\* the status the process ends with: sys.exit(1) at 41 and 807, else 0
ExitStatus ==
    IF pc = "exit_success" THEN Some(0)
    ELSE IF pc \in {"exit_failure", "interrupted"} THEN Some(1)
    ELSE None

UploadNext ==
    \/ Prepare
    \/ StartAttempt
    \/ \E i \in DOMAIN tasks : StartTask(i)
    \/ \E i \in DOMAIN tasks : CollectResult(i)
    \/ ReturnFromUpload
    \/ PersistVersion
    \/ DecideSuccess
    \/ DecideRetry
    \/ DecideFail
    \/ CreateSummary
    \/ Finish

\* ============================================================ merge_sessions
\* ---------------------------------------------------------------- timestamps
\* A timestamp string is [fmt, local, offset]: "Z" is an ISO time ending in Z,
\* "offset" one ending in +hh:mm, "naive" one with no zone, "garbage" a string
\* fromisoformat rejects, "empty" the empty string.  A datetime is [aware, t],
\* t the instant (for a naive one, the local time).
TsZ(t) == [fmt |-> "Z", local |-> t, offset |-> 0]
TsOffset(t, o) == [fmt |-> "offset", local |-> t, offset |-> o]
TsNaive(t) == [fmt |-> "naive", local |-> t, offset |-> 0]
TsGarbage == [fmt |-> "garbage", local |-> 0, offset |-> 0]
TsEmpty == [fmt |-> "empty", local |-> 0, offset |-> 0]

\* datetime.min.replace(tzinfo=timezone.utc)
MinDatetime == [aware |-> TRUE, t |-> 0]

parse_timestamp_IgnoreOffset(ts) ==
    IF ts.fmt \in {"empty", "garbage"} THEN MinDatetime
    ELSE [aware |-> ts.fmt # "naive", t |-> ts.local]

parse_timestamp(ts) ==
    IF ts.fmt = "empty" THEN MinDatetime
    ELSE IF ts.fmt = "Z" THEN [aware |-> TRUE, t |-> ts.local]
    ELSE IF ts.fmt = "offset" THEN [aware |-> TRUE, t |-> ts.local - ts.offset]
    ELSE IF ts.fmt = "naive" THEN [aware |-> FALSE, t |-> ts.local]
    ELSE MinDatetime

\* dict.get(key, default)
Get(d, key, default) == IF key \in DOMAIN d THEN d[key] ELSE default

EmptyDict == [k \in {} |-> 0]

\* list.sort(key=...): comparing an aware with a naive datetime raises TypeError,
\* and every element of a list is compared with an earlier one
SortRaises(keys) == \E i, j \in DOMAIN keys : keys[i].aware # keys[j].aware

\* a sort that puts an element before the placed elements with an equal key
InsertByKey_BeforeEqual(perm, k, keys) ==
    LET pos == Cardinality({j \in DOMAIN perm : keys[perm[j]].t < keys[k].t}) IN
    SubSeq(perm, 1, pos) \o <<k>> \o SubSeq(perm, pos + 1, Len(perm))

\* the stable sort, as the order of the indices: each element goes after the
\* elements already placed whose key is not greater
InsertByKey(perm, k, keys) ==
    LET pos == Cardinality({j \in DOMAIN perm : keys[perm[j]].t <= keys[k].t}) IN
    SubSeq(perm, 1, pos) \o <<k>> \o SubSeq(perm, pos + 1, Len(perm))

RECURSIVE SortPerm(_, _)
SortPerm(keys, n) ==
    IF n = 0 THEN <<>> ELSE InsertByKey(SortPerm(keys, n - 1), n, keys)

SortedBy(seq, keys) ==
    LET perm == SortPerm(keys, Len(seq)) IN [i \in DOMAIN seq |-> seq[perm[i]]]

\* ------------------------------------------------------------ session files
\* A file is [sid, raw, readable, lines]; a line is [parses, event], the event
\* a dict.  session_{sid}.jsonl is the consolidated file, session_{sid}_raw.jsonl
\* the raw one.
MessageTypes == {"user", "assistant", "assistant_thinking"}

\* read_session_events: the events of the lines that parse; none on a read error
read_session_events(file) ==
    IF ~file.readable THEN <<>>
    ELSE LET idx == {i \in DOMAIN file.lines : file.lines[i].parses}
             RECURSIVE Pick(_)
             Pick(i) == IF i = 0 THEN <<>>
                        ELSE IF i \in idx THEN Append(Pick(i - 1), file.lines[i].event)
                        ELSE Pick(i - 1)
         IN Pick(Len(file.lines))

\* the last event of a type, or None
LastOfType(events, type) ==
    LET idx == {i \in DOMAIN events : Get(events[i], "type", "") = type} IN
    IF idx = {} THEN None
    ELSE Some(events[CHOOSE i \in idx : \A j \in idx : j <= i])

\* extract_session_data taking the user and assistant events only
SelectMessages_UserAssistant(events) ==
    SelectSeq(events, LAMBDA e : Get(e, "type", "") \in {"user", "assistant"})

RECURSIVE SelectMessages(_)
SelectMessages(events) ==
    IF events = <<>> THEN <<>>
    ELSE LET rest == SelectMessages(SubSeq(events, 1, Len(events) - 1))
             e == events[Len(events)]
         IN IF Get(e, "type", "") \in MessageTypes THEN Append(rest, e) ELSE rest

extract_session_data(events) ==
    [session_start |-> LastOfType(events, "session_start"),
     session_end |-> LastOfType(events, "session_end"),
     session_summary |-> LastOfType(events, "session_summary"),
     messages |-> SelectMessages(events)]

\* get_start_time of find_session_files: the first session_start line's
\* timestamp; the sentinel when a line before it does not parse, when the file
\* cannot be read, or when there is none
get_start_time(file) ==
    IF ~file.readable THEN MinDatetime
    ELSE LET starts == {i \in DOMAIN file.lines :
                           /\ file.lines[i].parses
                           /\ Get(file.lines[i].event, "type", "") = "session_start"}
             bad == {i \in DOMAIN file.lines : ~file.lines[i].parses}
         IN IF starts = {} THEN MinDatetime
            ELSE LET first == CHOOSE i \in starts : \A j \in starts : i <= j IN
                 IF \E b \in bad : b < first THEN MinDatetime
                 ELSE parse_timestamp(Get(file.lines[first].event, "timestamp", TsEmpty))

\* -------------------------------------------------------- aggregate_summaries
TopSumFields == {"total_duration_seconds", "total_messages", "assistant_messages",
                 "user_prompts"}
UserMetricFields == {"user_prompts", "tool_results", "system_messages",
                     "total_user_events"}
UsageSumFields == {"total_input_tokens", "total_output_tokens",
                   "total_cache_creation_tokens", "total_cache_read_tokens",
                   "total_ephemeral_5m_tokens", "total_ephemeral_1h_tokens",
                   "total_actual_input_tokens"}
ToolSumFields == {"total_tool_calls", "total_tool_results"}
ThinkingSumFields == {"thinking_enabled_turns", "thinking_disabled_turns",
                      "assistant_with_thinking_blocks",
                      "assistant_thinking_blocks_captured"}
GitMaxFields == {"files_changed_count", "lines_of_code_changed_count"}
TotalsKeys == TopSumFields \cup {"user_metrics", "usage_totals", "tool_metrics",
                                 "thinking_metrics", "git_metrics"}

\* the initial totals
ZeroTotals ==
    [k \in TotalsKeys |->
        CASE k \in TopSumFields -> 0
          [] k = "user_metrics" -> [f \in UserMetricFields |-> 0]
          [] k = "usage_totals" ->
                [f \in UsageSumFields \cup {"service_tier"} |->
                    IF f = "service_tier" THEN None ELSE 0]
          [] k = "tool_metrics" ->
                [f \in ToolSumFields \cup {"tool_calls_by_type"} |->
                    IF f = "tool_calls_by_type" THEN EmptyDict ELSE 0]
          [] k = "thinking_metrics" ->
                [f \in ThinkingSumFields \cup {"thinking_levels"} |->
                    IF f = "thinking_levels" THEN EmptyDict ELSE 0]
          [] k = "git_metrics" -> [f \in GitMaxFields |-> 0]]

\* totals[f] += value
AddCounter(acc, value) == acc + value

\* totals[f] = max(totals[f], value)
MaxCounter_Sum(acc, value) == acc + value

MaxCounter(acc, value) == IF value > acc THEN value ELSE acc

\* for name, count in d.items(): acc[name] += count   (acc a defaultdict(int))
AddCounts(acc, d) ==
    [k \in DOMAIN acc \cup DOMAIN d |->
        IF k \in DOMAIN d THEN AddCounter(Get(acc, k, 0), d[k]) ELSE acc[k]]

\* the first non-empty service_tier kept
ServiceTier_FirstWins(acc, ut) ==
    IF acc = None /\ Get(ut, "service_tier", "") # "" THEN Some(ut["service_tier"]) ELSE acc

\* if ut.get('service_tier'): totals[...] = ut['service_tier']
ServiceTier(acc, ut) ==
    IF Get(ut, "service_tier", "") # "" THEN Some(ut["service_tier"]) ELSE acc

\* one iteration of the loop over the summaries
AddSummary(totals, summary) ==
    LET sd == Get(summary, "summary_data", EmptyDict)
        um == Get(sd, "user_metrics", EmptyDict)
        ut == Get(sd, "usage_totals", EmptyDict)
        tm == Get(sd, "tool_metrics", EmptyDict)
        thm == Get(sd, "thinking_metrics", EmptyDict)
        gm == Get(sd, "git_metrics", EmptyDict)
    IN [k \in TotalsKeys |->
        CASE k \in TopSumFields -> AddCounter(totals[k], Get(sd, k, 0))
          [] k = "user_metrics" ->
                [f \in UserMetricFields |-> AddCounter(totals[k][f], Get(um, f, 0))]
          [] k = "usage_totals" ->
                [f \in UsageSumFields \cup {"service_tier"} |->
                    IF f = "service_tier" THEN ServiceTier(totals[k][f], ut)
                    ELSE AddCounter(totals[k][f], Get(ut, f, 0))]
          [] k = "tool_metrics" ->
                [f \in ToolSumFields \cup {"tool_calls_by_type"} |->
                    IF f = "tool_calls_by_type"
                    THEN AddCounts(totals[k][f], Get(tm, f, EmptyDict))
                    ELSE AddCounter(totals[k][f], Get(tm, f, 0))]
          [] k = "thinking_metrics" ->
                [f \in ThinkingSumFields \cup {"thinking_levels"} |->
                    IF f = "thinking_levels"
                    THEN AddCounts(totals[k][f], Get(thm, f, EmptyDict))
                    ELSE AddCounter(totals[k][f], Get(thm, f, 0))]
          [] k = "git_metrics" ->
                [f \in GitMaxFields |-> MaxCounter(totals[k][f], Get(gm, f, 0))]]

RECURSIVE AggregateLoop(_, _)
AggregateLoop(summaries, n) ==
    IF n = 0 THEN ZeroTotals
    ELSE AddSummary(AggregateLoop(summaries, n - 1), summaries[n])

aggregate_summaries(summaries) == AggregateLoop(summaries, Len(summaries))

\* str(uuid.uuid4()): an id no input file has
MergedSessionId == "merged"

\* datetime.now(timezone.utc).isoformat(), later than every input timestamp
NowTs == TsOffset(9, 0)

ABKeys == {"task_id", "model_lane", "experiment_root", "model_name"}

JsonLine(event) == [parses |-> TRUE, event |-> event]

ProcessedFile(sid) == CHOOSE f \in lane_dir : f.sid = sid /\ ~f.raw
RawFile(sid) == CHOOSE f \in lane_dir : f.sid = sid /\ f.raw
HasRaw(sid) == \E f \in lane_dir : f.sid = sid /\ f.raw

Perms(S) == {p \in [1..Cardinality(S) -> S] : \A i, j \in DOMAIN p : p[i] = p[j] => i = j}

RECURSIVE SelectSeq2(_, _)
\* the elements of a sequence of sids that have a raw file
SelectSeq2(sids, n) ==
    IF n = 0 THEN <<>>
    ELSE IF HasRaw(sids[n]) THEN Append(SelectSeq2(sids, n - 1), sids[n])
    ELSE SelectSeq2(sids, n - 1)

\* x or {}
OrEmpty(opt) == IF opt = None THEN EmptyDict ELSE opt[1]

\* sd.get('session_start', {}).get('session_id', 'unknown'): the key is always
\* there, so a session with no session_start gives None, and None.get raises
StartIdRaises(sd) == sd.session_start = None
StartId(sd) == Get(sd.session_start[1], "session_id", "unknown")

\* lines 284-288
OriginalSessionId_FileId(msg, file_sid) == file_sid

OriginalSessionId(msg, file_sid) == Get(msg, "session_id", "unknown")

RetagMessage(msg, file_sid) ==
    DictSet(DictSet(msg, "session_id", MergedSessionId),
            "original_session_id", OriginalSessionId(msg, file_sid))

RECURSIVE CollectMessages(_, _, _)
CollectMessages(data, sids, n) ==
    IF n = 0 THEN <<>>
    ELSE CollectMessages(data, sids, n - 1)
         \o [i \in DOMAIN data[n].messages |-> RetagMessage(data[n].messages[i], sids[n])]

MessageKeys(msgs) ==
    [i \in DOMAIN msgs |-> parse_timestamp(Get(msgs[i], "timestamp", TsEmpty))]

\* the keys copied from the first session_start, when they are not empty
CopiedKeys(first_start) == {k \in ABKeys : Get(first_start, k, "") # ""}

MergedStart(data, first_start) ==
    LET keys == {"type", "timestamp", "session_id", "transcript_path", "cwd",
                 "git_metadata", "merged_from_sessions"} \cup CopiedKeys(first_start)
    IN [k \in keys |->
        CASE k = "type" -> "session_start"
          [] k = "timestamp" -> Get(first_start, "timestamp", NowTs)
          [] k = "session_id" -> MergedSessionId
          [] k = "transcript_path" -> Len(data)
          [] k = "cwd" -> Get(first_start, "cwd", "")
          [] k = "git_metadata" -> DictGet(first_start, "git_metadata")
          [] k = "merged_from_sessions" -> [i \in DOMAIN data |-> StartId(data[i])]
          [] OTHER -> first_start[k]]

RECURSIVE SelectSummaries(_, _)
\* [sd['session_summary'] for sd in all_session_data if sd.get('session_summary')]
SelectSummaries(data, n) ==
    IF n = 0 THEN <<>>
    ELSE IF data[n].session_summary # None
    THEN Append(SelectSummaries(data, n - 1), data[n].session_summary[1])
    ELSE SelectSummaries(data, n - 1)

MergedSummary(data, first_start) ==
    LET aggregated_data == aggregate_summaries(SelectSummaries(data, Len(data)))
        model_lane == Get(first_start, "model_lane", "")
        summary_data ==
            [k \in TotalsKeys \cup {"merged_sessions_count", "original_session_ids",
                                    "files", "validation"} |->
                CASE k = "merged_sessions_count" -> Len(data)
                  [] k = "original_session_ids" ->
                        [i \in DOMAIN data |-> StartId(data[i])]
                  [] k = "files" ->
                        [processed_log |-> <<MergedSessionId, ".jsonl">>,
                         raw_transcript |-> <<MergedSessionId, "_raw.jsonl">>,
                         git_diff |-> IF model_lane # ""
                                      THEN Some(<<model_lane, "_diff.patch">>)
                                      ELSE None]
                  [] k = "validation" ->
                        [complete |-> TRUE,
                         unique_messages_processed |-> aggregated_data["total_messages"],
                         thinking_blocks_extracted |->
                            aggregated_data["thinking_metrics"]["assistant_thinking_blocks_captured"]]
                  [] OTHER -> aggregated_data[k]]
        keys == {"type", "timestamp", "session_id", "transcript_path", "cwd",
                 "summary_data"} \cup CopiedKeys(first_start)
    IN [k \in keys |->
        CASE k = "type" -> "session_summary"
          [] k = "timestamp" -> NowTs
          [] k = "session_id" -> MergedSessionId
          [] k = "transcript_path" -> Len(data)
          [] k = "cwd" -> Get(first_start, "cwd", "")
          [] k = "summary_data" -> summary_data
          [] OTHER -> first_start[k]]

MergedEnd(data, first_start, last_end) ==
    LET keys == {"type", "timestamp", "session_id", "transcript_path", "cwd",
                 "reason"} \cup CopiedKeys(first_start)
    IN [k \in keys |->
        CASE k = "type" -> "session_end"
          [] k = "timestamp" -> Get(last_end, "timestamp", NowTs)
          [] k = "session_id" -> MergedSessionId
          [] k = "transcript_path" -> Len(data)
          [] k = "cwd" -> Get(last_end, "cwd", Get(first_start, "cwd", ""))
          [] k = "reason" -> "merged_sessions"
          [] OTHER -> first_start[k]]

\* lines 363-382: the lines of the merged raw file
\* A line that is no JSON is kept as its text: [text, pad], pad telling whether
\* white space surrounds the text; the text "" is a line of white space only.
\* line.strip()
StripLine(line) == [line EXCEPT !.event.pad = FALSE]

\* `if line:` after the strip
IsBlankLine(line) == ~line.parses /\ line.event.text = ""

\* the rewrite that keeps no originalSessionId
RawLineOut_NoOriginal(line) ==
    IF line.parses /\ "sessionId" \in DOMAIN line.event
    THEN JsonLine(DictSet(line.event, "sessionId", MergedSessionId))
    ELSE IF line.parses THEN line ELSE StripLine(line)

\* a record is written back by json.dumps, a line that is no JSON as stripped
RawLineOut(line) ==
    IF line.parses /\ "sessionId" \in DOMAIN line.event
    THEN JsonLine(DictSet(DictSet(line.event, "originalSessionId", line.event["sessionId"]),
                          "sessionId", MergedSessionId))
    ELSE IF line.parses THEN line ELSE StripLine(line)

RECURSIVE MergedRawLines(_, _)
MergedRawLines(sids, n) ==
    IF n = 0 THEN <<>>
    ELSE LET rf == RawFile(sids[n]) IN
         MergedRawLines(sids, n - 1)
         \o (IF rf.readable
             THEN LET kept == SelectSeq(rf.lines, LAMBDA l : ~IsBlankLine(l)) IN
                  [i \in DOMAIN kept |-> RawLineOut(kept[i])]
             ELSE <<>>)

\* -------------------------------------------------------------- merge steps
MergeFind_MergeOne ==
    /\ m_pc = "idle"
    /\ \E glob \in Perms({f.sid : f \in {g \in lane_dir : ~g.raw}}) :
          LET keys == [i \in DOMAIN glob |-> get_start_time(ProcessedFile(glob[i]))] IN
          IF SortRaises(keys)
          THEN /\ m_pc' = "crashed"
               /\ UNCHANGED <<processed_files, raw_files, merge_result>>
          ELSE /\ processed_files' = SortedBy(glob, keys)
               /\ raw_files' = SelectSeq2(processed_files', Len(processed_files'))
               /\ IF Len(processed_files') < 1
                  THEN m_pc' = "done" /\ merge_result' = "false"
                  ELSE m_pc' = "found" /\ UNCHANGED merge_result
    /\ UNCHANGED <<lane_dir, backup_dir, backup_exists, all_session_data, merged>>
    /\ UNCHANGED not_merge_vars

\* line 221 (find_session_files) and lines 223-227
MergeFind ==
    /\ m_pc = "idle"
    /\ \E glob \in Perms({f.sid : f \in {g \in lane_dir : ~g.raw}}) :
          LET keys == [i \in DOMAIN glob |-> get_start_time(ProcessedFile(glob[i]))] IN
          IF SortRaises(keys)
          THEN /\ m_pc' = "crashed"
               /\ UNCHANGED <<processed_files, raw_files, merge_result>>
          ELSE /\ processed_files' = SortedBy(glob, keys)
               /\ raw_files' = SelectSeq2(processed_files', Len(processed_files'))
               /\ IF Len(processed_files') < 2
                  THEN m_pc' = "done" /\ merge_result' = "false"
                  ELSE m_pc' = "found" /\ UNCHANGED merge_result
    /\ UNCHANGED <<lane_dir, backup_dir, backup_exists, all_session_data, merged>>
    /\ UNCHANGED not_merge_vars

\* lines 233-238
MergeRead ==
    /\ m_pc = "found"
    /\ all_session_data' =
          [i \in DOMAIN processed_files |->
              extract_session_data(read_session_events(ProcessedFile(processed_files[i])))]
    /\ m_pc' = "read"
    /\ UNCHANGED <<lane_dir, backup_dir, backup_exists, processed_files, raw_files,
                   merged, merge_result>>
    /\ UNCHANGED not_merge_vars

\* lines 240-343: the merged records; a session without session_start makes
\* line 270 raise, datetimes that do not compare make the sort raise
MergeBuild ==
    /\ m_pc = "read"
    /\ LET data == all_session_data
           first_start == OrEmpty(data[1].session_start)
           last_end == OrEmpty(data[Len(data)].session_end)
           msgs == CollectMessages(data, processed_files, Len(data))
           keys == MessageKeys(msgs)
       IN IF (\E i \in DOMAIN data : StartIdRaises(data[i])) \/ SortRaises(keys)
          THEN m_pc' = "crashed" /\ UNCHANGED merged
          ELSE /\ merged' = Some([start |-> MergedStart(data, first_start),
                                  messages |-> SortedBy(msgs, keys),
                                  summary |-> MergedSummary(data, first_start),
                                  end |-> MergedEnd(data, first_start, last_end)])
               /\ m_pc' = "built"
    /\ UNCHANGED <<lane_dir, backup_dir, backup_exists, processed_files, raw_files,
                   all_session_data, merge_result>>
    /\ UNCHANGED not_merge_vars

\* the merged file with the session_end record before the summary
MergedFile_EndBeforeSummary ==
    [sid |-> MergedSessionId, raw |-> FALSE, readable |-> TRUE,
     lines |-> <<JsonLine(merged[1].start)>>
               \o [i \in DOMAIN merged[1].messages |-> JsonLine(merged[1].messages[i])]
               \o <<JsonLine(merged[1].end), JsonLine(merged[1].summary)>>]

\* lines 345-352
MergedFile ==
    [sid |-> MergedSessionId, raw |-> FALSE, readable |-> TRUE,
     lines |-> <<JsonLine(merged[1].start)>>
               \o [i \in DOMAIN merged[1].messages |-> JsonLine(merged[1].messages[i])]
               \o <<JsonLine(merged[1].summary), JsonLine(merged[1].end)>>]

MergeWrite ==
    /\ m_pc = "built"
    /\ lane_dir' = lane_dir \cup {MergedFile}
    /\ m_pc' = "written"
    /\ UNCHANGED <<backup_dir, backup_exists, processed_files, raw_files,
                   all_session_data, merged, merge_result>>
    /\ UNCHANGED not_merge_vars

\* lines 358-385
MergeRawFiles ==
    /\ m_pc = "written"
    /\ lane_dir' =
          IF raw_files # <<>>
          THEN lane_dir \cup {[sid |-> MergedSessionId, raw |-> TRUE, readable |-> TRUE,
                               lines |-> MergedRawLines(raw_files, Len(raw_files))]}
          ELSE lane_dir
    /\ m_pc' = "raw_done"
    /\ UNCHANGED <<backup_dir, backup_exists, processed_files, raw_files,
                   all_session_data, merged, merge_result>>
    /\ UNCHANGED not_merge_vars

MergeBackup_Delete ==
    /\ m_pc = "raw_done"
    /\ backup_exists' = TRUE
    /\ LET moved == {ProcessedFile(processed_files[i]) : i \in DOMAIN processed_files}
                    \cup {RawFile(raw_files[i]) : i \in DOMAIN raw_files}
       IN /\ lane_dir' = lane_dir \ moved
          /\ backup_dir' = backup_dir
    /\ merge_result' = "true"
    /\ m_pc' = "done"
    /\ UNCHANGED <<processed_files, raw_files, all_session_data, merged>>
    /\ UNCHANGED not_merge_vars

\* lines 387-416
MergeBackup ==
    /\ m_pc = "raw_done"
    /\ backup_exists' = TRUE
    /\ LET moved == {ProcessedFile(processed_files[i]) : i \in DOMAIN processed_files}
                    \cup {RawFile(raw_files[i]) : i \in DOMAIN raw_files}
       IN /\ lane_dir' = lane_dir \ moved
          /\ backup_dir' = backup_dir \cup moved
    /\ merge_result' = "true"
    /\ m_pc' = "done"
    /\ UNCHANGED <<processed_files, raw_files, all_session_data, merged>>
    /\ UNCHANGED not_merge_vars

MergeIdle ==
    /\ lane_dir = {}
    /\ backup_dir = {}
    /\ backup_exists = FALSE
    /\ m_pc = "off"
    /\ processed_files = <<>>
    /\ raw_files = <<>>
    /\ all_session_data = <<>>
    /\ merged = None
    /\ merge_result = "none"

MergeNext ==
    \/ MergeFind
    \/ MergeRead
    \/ MergeBuild
    \/ MergeWrite
    \/ MergeRawFiles
    \/ MergeBackup

UploadIdle ==
    /\ manifest_file = EmptyDict
    /\ sprint_folder = <<>>
    /\ task_id = <<>>
    /\ last_version = None
    /\ pc = "off"
    /\ attempt = 0
    /\ attempt_version = 0
    /\ upload_path = <<>>
    /\ upload_files = <<>>
    /\ tasks = <<>>
    /\ uploaded_count = 0
    /\ failed_files = <<>>
    /\ conflict_error_codes = {}
    /\ persist_result = "none"
    /\ upload_successful = FALSE
    /\ final_upload_path = None
    /\ final_version = None
    /\ attempt_log = <<>>
    /\ temp_files = {}

Models == <<"model_a", "model_b">>

NoLane == [exists |-> FALSE, files |-> {}, backup |-> {}, backup_exists |-> FALSE]

ExperimentIdle ==
    /\ target = "none"
    /\ logs_exists = FALSE
    /\ logs_dir = [m \in {"model_a", "model_b"} |-> NoLane]
    /\ x_pc = "off"
    /\ lane_no = 0
    /\ results = EmptyDict
    /\ lane_message = EmptyDict
    /\ summary_lines = EmptyDict
    /\ exit_status = "none"

TransferIdle ==
    /\ t_env = [stat |-> NoError, tries |-> <<>>]
    /\ t_pc = "off"
    /\ t_result = None

PoolIdle ==
    /\ pool = <<>>
    /\ pool_pc = "off"

ValidateIdle ==
    /\ v_fs = [present |-> {}, sessions |-> [m \in {"model_a", "model_b"} |-> 0]]
    /\ v_pc = "off"
    /\ v_result = None

RunsIdle == prior_uploads = {}

PathIdle ==
    /\ p_call = EmptyDict
    /\ p_pc = "off"
    /\ p_paths = None

OtherIdle == TransferIdle /\ PoolIdle /\ ValidateIdle /\ RunsIdle /\ PathIdle

RestIdle == ExperimentIdle /\ OtherIdle

MergeStart(dirs) ==
    /\ lane_dir \in dirs
    /\ backup_dir = {}
    /\ backup_exists = FALSE
    /\ m_pc = "idle"
    /\ processed_files = <<>>
    /\ raw_files = <<>>
    /\ all_session_data = <<>>
    /\ merged = None
    /\ merge_result = "none"

\* ------------------------------------------------ merge input: the messages
\* lane directories of up to MaxSessions sessions holding up to MaxMessages
\* messages in all, written in any interleaving
MaxSessions == 2
MaxMessages == 2

SessionIds == <<"a", "b", "c", "d">>

\* what a logged message can look like: its timestamp string (None: no
\* timestamp key) and its session_id (own: the id of its file; other: another
\* id; absent: no session_id key); the last kind is an event that is no message
MessageKinds ==
    {[type |-> "user", ts |-> Some(TsZ(2)), id |-> "own"],
     [type |-> "assistant", ts |-> Some(TsOffset(5, 2)), id |-> "own"],
     [type |-> "assistant_thinking", ts |-> Some(TsZ(4)), id |-> "other"],
     [type |-> "user", ts |-> None, id |-> "absent"],
     [type |-> "assistant", ts |-> Some(TsGarbage), id |-> "own"],
     [type |-> "user", ts |-> Some(TsNaive(3)), id |-> "own"],
     [type |-> "tool_result", ts |-> Some(TsZ(3)), id |-> "own"]}

MessageEvent(kind, sid, n) ==
    LET keys == {"type", "uuid"}
                \cup (IF kind.ts # None THEN {"timestamp"} ELSE {})
                \cup (IF kind.id # "absent" THEN {"session_id"} ELSE {})
    IN [k \in keys |->
        CASE k = "type" -> kind.type
          [] k = "uuid" -> [file |-> sid, n |-> n]
          [] k = "timestamp" -> kind.ts[1]
          [] k = "session_id" -> IF kind.id = "own" THEN sid ELSE "zz"]

StartEvent(sid, ts) ==
    [type |-> "session_start", timestamp |-> ts, session_id |-> sid, cwd |-> "/w",
     git_metadata |-> "g", model_lane |-> "model_a", task_id |-> "T"]

EndEvent(sid, ts) ==
    [type |-> "session_end", timestamp |-> ts, session_id |-> sid, cwd |-> "/w"]

RECURSIVE FileMessages(_, _, _)
\* the messages of the file f among the first n logged messages
FileMessages(log, f, n) ==
    IF n = 0 THEN <<>>
    ELSE IF log[n][1] = f
    THEN Append(FileMessages(log, f, n - 1),
                JsonLine(MessageEvent(log[n][2], SessionIds[f], n)))
    ELSE FileMessages(log, f, n - 1)

MessageDir(nfiles, log) ==
    {[sid |-> SessionIds[f], raw |-> FALSE, readable |-> TRUE,
      lines |-> <<JsonLine(StartEvent(SessionIds[f], TsZ(1)))>>
                \o FileMessages(log, f, Len(log))
                \o <<JsonLine(EndEvent(SessionIds[f], TsZ(8)))>>] : f \in 1..nfiles}

MessageDirs(max_sessions, max_messages) ==
    {MessageDir(nfiles, log) :
        nfiles \in 1..max_sessions,
        log \in UNION {[1..k -> (1..max_sessions) \X MessageKinds] : k \in 0..max_messages}}

MergeInit == MergeStart(MessageDirs(MaxSessions, MaxMessages)) /\ UploadIdle /\ RestIdle

SpecMerge == MergeInit /\ [][MergeNext]_vars

\* ----------------------------------------------- merge input: the summaries
\* lane directories of up to MaxSummaryFiles sessions, started one after the
\* other, each with one of the summary payloads or without a summary
MaxSummaryFiles == 3

SummaryData1 ==
    [total_duration_seconds |-> 5, total_messages |-> 4, assistant_messages |-> 2,
     user_prompts |-> 1,
     user_metrics |-> [user_prompts |-> 1, tool_results |-> 2, system_messages |-> 0,
                       total_user_events |-> 3],
     usage_totals |-> [total_input_tokens |-> 10, total_output_tokens |-> 4,
                       total_cache_creation_tokens |-> 1, total_cache_read_tokens |-> 2,
                       total_ephemeral_5m_tokens |-> 1, total_ephemeral_1h_tokens |-> 0,
                       total_actual_input_tokens |-> 13, service_tier |-> "standard"],
     tool_metrics |-> [total_tool_calls |-> 3, total_tool_results |-> 3,
                       tool_calls_by_type |-> [Read |-> 2, Edit |-> 1]],
     thinking_metrics |-> [thinking_enabled_turns |-> 1, thinking_disabled_turns |-> 1,
                           assistant_with_thinking_blocks |-> 1,
                           assistant_thinking_blocks_captured |-> 2,
                           thinking_levels |-> [high |-> 1]],
     git_metrics |-> [files_changed_count |-> 3, lines_of_code_changed_count |-> 40]]

SummaryData2 ==
    [total_duration_seconds |-> 7, total_messages |-> 6, assistant_messages |-> 3,
     user_prompts |-> 2,
     user_metrics |-> [user_prompts |-> 2, tool_results |-> 1, system_messages |-> 1,
                       total_user_events |-> 4],
     usage_totals |-> [total_input_tokens |-> 20, total_output_tokens |-> 8,
                       total_cache_creation_tokens |-> 0, total_cache_read_tokens |-> 5,
                       total_ephemeral_5m_tokens |-> 0, total_ephemeral_1h_tokens |-> 2,
                       total_actual_input_tokens |-> 25, service_tier |-> ""],
     tool_metrics |-> [total_tool_calls |-> 4, total_tool_results |-> 2,
                       tool_calls_by_type |-> [Read |-> 1, Bash |-> 3]],
     thinking_metrics |-> [thinking_enabled_turns |-> 2, thinking_disabled_turns |-> 0,
                           assistant_with_thinking_blocks |-> 2,
                           assistant_thinking_blocks_captured |-> 3,
                           thinking_levels |-> [high |-> 2, low |-> 1]],
     git_metrics |-> [files_changed_count |-> 7, lines_of_code_changed_count |-> 10]]

\* a payload that lacks fields and sections
SummaryData3 ==
    [total_messages |-> 1,
     usage_totals |-> [total_input_tokens |-> 5, service_tier |-> "priority"],
     tool_metrics |-> [tool_calls_by_type |-> [Edit |-> 4]],
     git_metrics |-> [files_changed_count |-> 2]]

SummaryEvent(sid, data) ==
    [type |-> "session_summary", session_id |-> sid, summary_data |-> data]

\* the lines a session can have between its start and its end: no summary, a
\* summary without summary_data, or a summary with one of the payloads
SummaryKinds == {"none", "no_data", "data1", "data2", "data3"}

SummaryLines(sid, kind) ==
    CASE kind = "none" -> <<>>
      [] kind = "no_data" -> <<JsonLine([type |-> "session_summary", session_id |-> sid])>>
      [] kind = "data1" -> <<JsonLine(SummaryEvent(sid, SummaryData1))>>
      [] kind = "data2" -> <<JsonLine(SummaryEvent(sid, SummaryData2))>>
      [] kind = "data3" -> <<JsonLine(SummaryEvent(sid, SummaryData3))>>

SummaryDirs(max_files) ==
    UNION {{{[sid |-> SessionIds[f], raw |-> FALSE, readable |-> TRUE,
              lines |-> <<JsonLine(StartEvent(SessionIds[f], TsZ(f)))>>
                        \o SummaryLines(SessionIds[f], choice[f])
                        \o <<JsonLine(EndEvent(SessionIds[f], TsZ(f + 1)))>>] : f \in 1..n}
            : choice \in [1..n -> SummaryKinds]}
           : n \in 1..max_files}

AggregateInit == MergeStart(SummaryDirs(MaxSummaryFiles)) /\ UploadIdle /\ RestIdle

SpecAggregate == AggregateInit /\ [][MergeNext]_vars


\* --------------------------------------------------- merge input: the lanes
\* lane directories of up to MaxLaneSessions consolidated files, each complete,
\* without session_start, without session_end or unreadable, each with or
\* without its raw file, and with or without a raw file of no session
MaxLaneSessions == 2

\* "long": a session that ends after the sessions started after it;
\* "summary": a session with a session_summary line
LaneFileKinds == {"full", "long", "summary", "no_start", "no_end", "unreadable"}

OrphanId == "z"

\* session_{sid}.jsonl of the f-th session
LaneFile(f, kind) ==
    LET sid == SessionIds[f] IN
    [sid |-> sid, raw |-> FALSE, readable |-> kind # "unreadable",
     lines |-> (IF kind # "no_start"
                THEN <<JsonLine(StartEvent(sid, TsZ(f)))>> ELSE <<>>)
               \o <<JsonLine(MessageEvent([type |-> "user", ts |-> Some(TsZ(f)),
                                           id |-> "own"], sid, f))>>
               \o (IF kind = "summary"
                   THEN <<JsonLine(SummaryEvent(sid, SummaryData3))>> ELSE <<>>)
               \o (IF kind # "no_end"
                   THEN <<JsonLine(EndEvent(sid, TsZ(IF kind = "long" THEN f + 7
                                                                    ELSE f + 4)))>>
                   ELSE <<>>)]

\* session_{sid}_raw.jsonl: a record with a sessionId, a record without one, an
\* empty line and an indented line that is not JSON
RawLaneFile(sid) ==
    [sid |-> sid, raw |-> TRUE, readable |-> TRUE,
     lines |-> <<JsonLine([sessionId |-> sid, text |-> "t"]),
                 JsonLine([text |-> "n"]),
                 [parses |-> FALSE, event |-> [text |-> "", pad |-> TRUE]],
                 [parses |-> FALSE, event |-> [text |-> sid, pad |-> TRUE]]>>]

LaneDir(n, kind, raw, orphan) ==
    {LaneFile(f, kind[f]) : f \in 1..n}
    \cup {RawLaneFile(SessionIds[f]) : f \in {g \in 1..n : raw[g]}}
    \cup (IF orphan THEN {RawLaneFile(OrphanId)} ELSE {})

LaneDirs(max_sessions, kinds, raws, orphans) ==
    UNION {{LaneDir(n, kind, raw, orphan) :
               kind \in [1..n -> kinds], raw \in [1..n -> raws], orphan \in orphans}
           : n \in 0..max_sessions}

LaneInit ==
    /\ MergeStart(LaneDirs(MaxLaneSessions, LaneFileKinds, BOOLEAN, BOOLEAN))
    /\ UploadIdle
    /\ RestIdle

SpecLane == LaneInit /\ [][MergeNext]_vars

\* ------------------------------------------------- main, merge_experiment
\* the lanes of an experiment: no sessions with a session_end missing or an
\* unreadable file here, and no matched raw files
ExperimentLanes(max_sessions) ==
    {NoLane}
    \cup {[exists |-> TRUE, files |-> d, backup |-> {}, backup_exists |-> FALSE] :
             d \in LaneDirs(max_sessions, {"full", "no_start"}, {FALSE}, BOOLEAN)}

\* main is given an experiment root (logs/ or manifest.json exists) or a
\* directory of session files
ExperimentStart(lanes) ==
    /\ \/ /\ target = "experiment"
          /\ logs_exists = TRUE
          /\ logs_dir \in [{"model_a", "model_b"} -> lanes]
          /\ lane_dir = {}
       \/ /\ target = "experiment"
          /\ logs_exists = FALSE
          /\ logs_dir = [m \in {"model_a", "model_b"} |-> NoLane]
          /\ lane_dir = {}
       \/ /\ target = "lane"
          /\ logs_exists = FALSE
          /\ logs_dir = [m \in {"model_a", "model_b"} |-> NoLane]
          /\ lane_dir \in {l.files : l \in lanes}
    /\ x_pc = "main"
    /\ lane_no = 0
    /\ results = EmptyDict
    /\ lane_message = EmptyDict
    /\ summary_lines = EmptyDict
    /\ exit_status = "none"
    /\ backup_dir = {}
    /\ backup_exists = FALSE
    /\ m_pc = "off"
    /\ processed_files = <<>>
    /\ raw_files = <<>>
    /\ all_session_data = <<>>
    /\ merged = None
    /\ merge_result = "none"

\* main, lines 496-516
MainStart ==
    /\ x_pc = "main"
    /\ IF target = "lane"
       THEN /\ m_pc' = "idle"
            /\ x_pc' = "direct"
            /\ UNCHANGED <<lane_no, exit_status>>
       ELSE /\ UNCHANGED m_pc
            /\ IF logs_exists
               THEN x_pc' = "lanes" /\ lane_no' = 1 /\ UNCHANGED exit_status
               ELSE x_pc' = "exit" /\ exit_status' = "1" /\ UNCHANGED lane_no
    /\ UNCHANGED <<target, logs_exists, logs_dir, results, lane_message, summary_lines>>
    /\ UNCHANGED <<lane_dir, backup_dir, backup_exists, processed_files, raw_files,
                   all_session_data, merged, merge_result>>
    /\ UNCHANGED <<upload_vars, other_vars>>

\* merge_experiment, lines 439-463: one turn of the loop, up to the call of
\* merge_sessions
LaneCheck ==
    /\ x_pc = "lanes"
    /\ lane_no <= Len(Models)
    /\ LET model == Models[lane_no]
           lane == logs_dir[model]
           n == Cardinality({f \in lane.files : ~f.raw})
           skip(result, message) ==
               /\ results' = DictSet(results, model, result)
               /\ lane_message' = DictSet(lane_message, model, message)
               /\ lane_no' = lane_no + 1
               /\ UNCHANGED <<x_pc, merge_vars>>
       IN IF ~lane.exists THEN skip("None", "directory not found, skipping")
          ELSE IF n = 0 THEN skip("None", "No session files found, skipping")
          ELSE IF n = 1 THEN skip("True", "no merge needed")
          ELSE /\ lane_message' = DictSet(lane_message, model, "Processing")
               /\ x_pc' = "merging"
               /\ lane_dir' = lane.files
               /\ backup_dir' = lane.backup
               /\ backup_exists' = lane.backup_exists
               /\ m_pc' = "idle"
               /\ processed_files' = <<>>
               /\ raw_files' = <<>>
               /\ all_session_data' = <<>>
               /\ merged' = None
               /\ merge_result' = "none"
               /\ UNCHANGED <<results, lane_no>>
    /\ UNCHANGED <<target, logs_exists, logs_dir, summary_lines, exit_status>>
    /\ UNCHANGED <<upload_vars, other_vars>>

\* what merge_sessions has made of the lane directory
LaneNow == [exists |-> TRUE, files |-> lane_dir, backup |-> backup_dir,
            backup_exists |-> backup_exists]

\* line 463: merge_sessions returns
LaneReturn ==
    /\ x_pc = "merging"
    /\ m_pc = "done"
    /\ results' = DictSet(results, Models[lane_no],
                          IF merge_result = "true" THEN "True" ELSE "False")
    /\ logs_dir' = [logs_dir EXCEPT ![Models[lane_no]] = LaneNow]
    /\ lane_no' = lane_no + 1
    /\ x_pc' = "lanes"
    /\ m_pc' = "off"
    /\ UNCHANGED <<target, logs_exists, lane_message, summary_lines, exit_status>>
    /\ UNCHANGED <<lane_dir, backup_dir, backup_exists, processed_files, raw_files,
                   all_session_data, merged, merge_result>>
    /\ UNCHANGED <<upload_vars, other_vars>>

\* line 463: merge_sessions raises; nothing catches it in merge_experiment or
\* in main, and the process ends with a traceback
LaneRaise ==
    /\ x_pc = "merging"
    /\ m_pc = "crashed"
    /\ logs_dir' = [logs_dir EXCEPT ![Models[lane_no]] = LaneNow]
    /\ x_pc' = "exit"
    /\ exit_status' = "exception"
    /\ m_pc' = "off"
    /\ UNCHANGED <<target, logs_exists, lane_no, results, lane_message, summary_lines>>
    /\ UNCHANGED <<lane_dir, backup_dir, backup_exists, processed_files, raw_files,
                   all_session_data, merged, merge_result>>
    /\ UNCHANGED <<upload_vars, other_vars>>

SummaryLine(result) ==
    IF result = "None" THEN "Skipped" ELSE IF result = "True" THEN "OK" ELSE "Failed"

\* line 479: all(r is not False for r in results.values())
ExperimentSuccess(r) == \A m \in DOMAIN r : r[m] # "False"

\* lines 465-479 and main's sys.exit
MergeSummary ==
    /\ x_pc = "lanes"
    /\ lane_no > Len(Models)
    /\ summary_lines' = [m \in DOMAIN results |-> SummaryLine(results[m])]
    /\ exit_status' = IF ExperimentSuccess(results) THEN "0" ELSE "1"
    /\ x_pc' = "exit"
    /\ UNCHANGED <<target, logs_exists, logs_dir, lane_no, results, lane_message>>
    /\ UNCHANGED merge_vars
    /\ UNCHANGED <<upload_vars, other_vars>>

\* main, lines 514-518: merge_sessions(target_dir) returns
DirectReturn ==
    /\ x_pc = "direct"
    /\ m_pc = "done"
    /\ exit_status' = IF merge_result = "true" THEN "0" ELSE "1"
    /\ x_pc' = "exit"
    /\ m_pc' = "off"
    /\ UNCHANGED <<target, logs_exists, logs_dir, lane_no, results, lane_message,
                   summary_lines>>
    /\ UNCHANGED <<lane_dir, backup_dir, backup_exists, processed_files, raw_files,
                   all_session_data, merged, merge_result>>
    /\ UNCHANGED <<upload_vars, other_vars>>

\* main, line 516: merge_sessions(target_dir) raises
DirectRaise ==
    /\ x_pc = "direct"
    /\ m_pc = "crashed"
    /\ exit_status' = "exception"
    /\ x_pc' = "exit"
    /\ m_pc' = "off"
    /\ UNCHANGED <<target, logs_exists, logs_dir, lane_no, results, lane_message,
                   summary_lines>>
    /\ UNCHANGED <<lane_dir, backup_dir, backup_exists, processed_files, raw_files,
                   all_session_data, merged, merge_result>>
    /\ UNCHANGED <<upload_vars, other_vars>>

ExperimentNext ==
    \/ MainStart
    \/ LaneCheck
    \/ LaneReturn
    \/ LaneRaise
    \/ MergeSummary
    \/ DirectReturn
    \/ DirectRaise
    \/ MergeNext

ExperimentInit ==
    ExperimentStart(ExperimentLanes(MaxLaneSessions)) /\ UploadIdle /\ OtherIdle

SpecExperiment == ExperimentInit /\ [][ExperimentNext]_vars

\* merge_sessions.py is run again with the same argument after a run has
\* ended: the directories are as the ended run left them, the new process
\* starts with nothing else
RunAgain ==
    /\ x_pc = "exit"
    /\ x_pc' = "main"
    /\ lane_no' = 0
    /\ results' = EmptyDict
    /\ lane_message' = EmptyDict
    /\ summary_lines' = EmptyDict
    /\ exit_status' = "none"
    /\ IF target = "lane"
       THEN UNCHANGED <<lane_dir, backup_dir, backup_exists>>
       ELSE lane_dir' = {} /\ backup_dir' = {} /\ backup_exists' = FALSE
    /\ m_pc' = "off"
    /\ processed_files' = <<>>
    /\ raw_files' = <<>>
    /\ all_session_data' = <<>>
    /\ merged' = None
    /\ merge_result' = "none"
    /\ UNCHANGED <<target, logs_exists, logs_dir>>
    /\ UNCHANGED <<upload_vars, other_vars>>

RerunNext == ExperimentNext \/ RunAgain

SpecRerun == ExperimentInit /\ [][RerunNext]_vars

\* ------------------------------------------ upload_file_to_supabase, alone
\* one call of upload_file_to_supabase in every environment of MaxTries
\* would-be tries: each try returns or raises one of these
MaxTries == 4

\* open() of a file that cannot be read: an OSError
ErrPermission ==
    [kind |-> "other", cls |-> "OSError", words |-> {"permission denied"}]
\* a network error whose message names the status it got
ErrConnectionAfter409 ==
    [kind |-> "network", cls |-> "TusCommunicationError", words |-> {"connection", "409"}]

TryOutcomes ==
    {NoError, ErrConnection, ErrTusTimeout, ErrConnectionAfter409, ErrPermission,
     ErrForbidden, ErrConflict, ErrServer}

TransferFamily(max_tries) ==
    {[stat |-> ErrFileNotFound, tries |-> <<>>]}
    \cup {[stat |-> NoError, tries |-> t] : t \in [1..max_tries -> TryOutcomes]}

TransferInit ==
    /\ t_env \in TransferFamily(MaxTries)
    /\ t_pc = "called"
    /\ t_result = None
    /\ UploadIdle /\ MergeIdle /\ ExperimentIdle /\ PoolIdle /\ ValidateIdle
    /\ RunsIdle /\ PathIdle

Transfer ==
    /\ t_pc = "called"
    /\ t_result' = Some(upload_file_to_supabase(t_env))
    /\ t_pc' = "returned"
    /\ UNCHANGED <<t_env, upload_vars, merge_vars, experiment_vars, pool_vars,
                   validate_vars, run_vars, path_vars>>

SpecTransfer == TransferInit /\ [][Transfer]_vars

\* ------------------------------------------- upload_experiment_data's pool
\* ThreadPoolExecutor(max_workers=5): submit() queues a call and the pool runs
\* the queued calls in the order of submission, on at most max_workers threads;
\* a thread runs one call of upload_file_to_supabase to its end, its backoff
\* sleeps included.  PoolFiles files are uploaded.
PoolFiles == 6

\* a call is new (not yet submitted), queued, running (in a try), sleeping (in
\* time.sleep between two tries) or finished
NewCall == [state |-> "new", retry_attempt |-> 0]

PoolInit ==
    /\ pool = [i \in 1..PoolFiles |-> NewCall]
    /\ pool_pc = "submitting"
    /\ UploadIdle /\ MergeIdle /\ ExperimentIdle /\ TransferIdle /\ ValidateIdle
    /\ RunsIdle /\ PathIdle

\* the calls that hold a thread of the pool
Busy == {i \in DOMAIN pool : pool[i].state \in {"running", "sleeping"}}

PoolUnchanged == UNCHANGED <<upload_vars, merge_vars, experiment_vars, transfer_vars,
                             validate_vars, run_vars, path_vars>>

\* lines 546-553: executor.submit, file by file
PoolSubmit(i) ==
    /\ pool_pc = "submitting"
    /\ pool[i].state = "new"
    /\ \A j \in 1..(i - 1) : pool[j].state # "new"
    /\ pool' = [pool EXCEPT ![i].state = "queued"]
    /\ pool_pc' = IF i = Len(pool) THEN "waiting" ELSE "submitting"
    /\ PoolUnchanged

\* a thread of the pool takes the first queued call
PoolStart(i) ==
    /\ pool[i].state = "queued"
    /\ \A j \in 1..(i - 1) : pool[j].state \notin {"new", "queued"}
    /\ Cardinality(Busy) < max_workers
    /\ pool' = [pool EXCEPT ![i].state = "running"]
    /\ UNCHANGED pool_pc
    /\ PoolUnchanged

\* one try of the call's retry loop: it returns, raises an error that ends the
\* call, or raises a transient error, which is followed by a sleep unless it
\* was the last try
PoolTry(i) ==
    /\ pool[i].state = "running"
    /\ \E transient \in BOOLEAN :
          IF transient /\ pool[i].retry_attempt < max_upload_retries - 1
          THEN pool' = [pool EXCEPT ![i].state = "sleeping"]
          ELSE pool' = [pool EXCEPT ![i] = [state |-> "finished", retry_attempt |-> 0]]
    /\ UNCHANGED pool_pc
    /\ PoolUnchanged

\* time.sleep(backoff_delay) returns and the loop goes on
PoolWake(i) ==
    /\ pool[i].state = "sleeping"
    /\ pool' = [pool EXCEPT ![i] = [state |-> "running",
                                    retry_attempt |-> pool[i].retry_attempt + 1]]
    /\ UNCHANGED pool_pc
    /\ PoolUnchanged

\* lines 556-580: as_completed has yielded every future and the pool is left
PoolReturn ==
    /\ pool_pc = "waiting"
    /\ \A i \in DOMAIN pool : pool[i].state = "finished"
    /\ pool_pc' = "returned"
    /\ UNCHANGED pool
    /\ PoolUnchanged

PoolNext ==
    \/ \E i \in DOMAIN pool : PoolSubmit(i)
    \/ \E i \in DOMAIN pool : PoolStart(i)
    \/ \E i \in DOMAIN pool : PoolTry(i)
    \/ \E i \in DOMAIN pool : PoolWake(i)
    \/ PoolReturn

SpecPool == PoolInit /\ [][PoolNext]_vars

\* ------------------------------------------------ validate_experiment_files
\* the working directory as validation sees it: the required files and
\* directories that are there, and the number of consolidated session files
\* session_*.jsonl in logs/model_a and logs/model_b (up to MaxMandatory)
MaxMandatory == 2

required_files == <<"manifest.json", "model_a/.claude/settings.local.json",
                    "model_b/.claude/settings.local.json">>
required_dirs == <<"model_a", "model_b", "logs", "snapshots">>

Range(seq) == {seq[i] : i \in DOMAIN seq}

WorkingDirs(max_mandatory) ==
    {[present |-> items, sessions |-> n] :
        items \in {it \in SUBSET (Range(required_files) \cup Range(required_dirs)) :
                      /\ "model_a/.claude/settings.local.json" \in it => "model_a" \in it
                      /\ "model_b/.claude/settings.local.json" \in it => "model_b" \in it},
        n \in [{"model_a", "model_b"} -> 0..max_mandatory]}

\* a file system has no session files in a logs directory that is not there
ValidateInit ==
    /\ v_fs \in {fs \in WorkingDirs(MaxMandatory) :
                    "logs" \notin fs.present =>
                        fs.sessions = [m \in {"model_a", "model_b"} |-> 0]}
    /\ v_pc = "called"
    /\ v_result = None
    /\ UploadIdle /\ MergeIdle /\ ExperimentIdle /\ TransferIdle /\ PoolIdle
    /\ RunsIdle /\ PathIdle

\* print_error: the message and the items it lists; the process exits
Exit(message, items) == [passed |-> FALSE, message |-> message, items |-> items]

SessionLog(model) == "logs/" \o model \o "/session_*.jsonl"

\* lines 233-245 and 270-282: the mandatory session file of a lane
LaneError(fs, model) ==
    IF fs.sessions[model] = 0
    THEN Some(Exit("No mandatory session log file found", <<SessionLog(model)>>))
    ELSE IF fs.sessions[model] > 1
    THEN Some(Exit("Found several mandatory session files, expected exactly 1", <<>>))
    ELSE None

validate_experiment_files(fs) ==
    LET missing_files == SelectSeq(required_files, LAMBDA f : f \notin fs.present)
        missing_dirs == SelectSeq(required_dirs, LAMBDA d : d \notin fs.present)
        all_missing == missing_files \o missing_dirs
    IN IF "manifest.json" \notin fs.present
       THEN Exit("manifest.json not found in current directory", <<"manifest.json">>)
       ELSE IF "snapshots" \notin fs.present
       THEN Exit("snapshots folder not found in current directory", <<"snapshots">>)
       ELSE IF "logs" \in fs.present /\ LaneError(fs, "model_a") # None
       THEN LaneError(fs, "model_a")[1]
       ELSE IF "logs" \in fs.present /\ LaneError(fs, "model_b") # None
       THEN LaneError(fs, "model_b")[1]
       ELSE IF all_missing # <<>>
       THEN Exit("Validation failed. Missing required items", all_missing)
       ELSE [passed |-> TRUE, message |-> "Experiment files validation passed",
             items |-> <<>>]

Validate ==
    /\ v_pc = "called"
    /\ v_result' = Some(validate_experiment_files(v_fs))
    /\ v_pc' = IF v_result'[1].passed THEN "passed" ELSE "exited"
    /\ UNCHANGED <<v_fs, upload_vars, merge_vars, experiment_vars, transfer_vars,
                   pool_vars, run_vars, path_vars>>

SpecValidate == ValidateInit /\ [][Validate]_vars

\* ------------------------------------------- get_upload_path_from_version
\* the paths of two submissions into one destination folder: the task ids
\* are ids a manifest can hold, the versions 0..MaxPathVersion
MaxPathVersion == 2

SubmittedTaskIds == {<<"T">>, <<"T", "_", "v", "1">>, <<"T", "2">>, <<"a", "_", "b">>}

PathInit ==
    /\ p_call \in [folder : SprintFolders,
                   first : [task_id : SubmittedTaskIds, version : 0..MaxPathVersion],
                   second : [task_id : SubmittedTaskIds, version : 0..MaxPathVersion]]
    /\ p_pc = "called"
    /\ p_paths = None
    /\ UploadIdle /\ MergeIdle /\ ExperimentIdle /\ TransferIdle /\ PoolIdle
    /\ ValidateIdle /\ RunsIdle

\* lines 360-365, called for each of the two submissions
PathCall ==
    /\ p_pc = "called"
    /\ p_paths' = Some(<<get_upload_path_from_version(p_call.folder, p_call.first.task_id,
                                                      p_call.first.version),
                         get_upload_path_from_version(p_call.folder, p_call.second.task_id,
                                                      p_call.second.version)>>)
    /\ p_pc' = "returned"
    /\ UNCHANGED <<p_call, upload_vars, merge_vars, experiment_vars, transfer_vars,
                   pool_vars, validate_vars, run_vars>>

SpecPath == PathInit /\ [][PathCall]_vars

Init == UploadInit /\ MergeIdle /\ RestIdle

Next == UploadNext

Spec == Init /\ [][Next]_vars

\* the submission with its steps scheduled fairly: main runs on, the pool
\* gives a worker to a queued transfer when one is free, and a transfer that
\* was started returns
FairSpec == Init /\ [][Next]_vars /\ WF_vars(Next)

\* the submission with a whole-process interrupt
InterruptNext == UploadNext \/ Interrupt
SpecInterrupt == Init /\ [][InterruptNext]_vars

\* ------------------------------------------------ one invocation after another
\* the versions at which the invocation that ended uploaded a file: the last
\* version main took for saved (final_version, line 757) and the version of
\* the attempt it was in when a transfer of that attempt had succeeded
UploadedVersions ==
    (IF final_version # None THEN {final_version[1]} ELSE {})
        \cup (IF \E i \in DOMAIN tasks : tasks[i].result.success
              THEN {attempt_version} ELSE {})

\* the runs followed are those after which at most MaxPriorVersions versions
\* hold uploaded files
MaxPriorVersions == 1

\* submit.py is started again in the same directory after a run has ended:
\* manifest.json and what the ended run left on disk are what the new process
\* finds, everything else starts as in a first run. A manifest that is no
\* JSON document ends the new run in read_manifest, before any attempt.
Restart ==
    /\ pc \in {"exit_success", "exit_failure", "interrupted"}
    /\ manifest_file # TruncatedFile
    /\ NextVersion(DictGet(manifest_file, "last_submission_version")) <= MaxStartVersion + 1
    /\ Cardinality(prior_uploads \cup UploadedVersions) <= MaxPriorVersions
    /\ prior_uploads' = prior_uploads \cup UploadedVersions
    /\ last_version' = None
    /\ pc' = "start"
    /\ attempt' = 0
    /\ attempt_version' = 0
    /\ upload_path' = <<>>
    /\ upload_files' = <<>>
    /\ tasks' = <<>>
    /\ uploaded_count' = 0
    /\ failed_files' = <<>>
    /\ conflict_error_codes' = {}
    /\ persist_result' = "none"
    /\ upload_successful' = FALSE
    /\ final_upload_path' = None
    /\ final_version' = None
    /\ attempt_log' = <<>>
    /\ UNCHANGED <<manifest_file, sprint_folder, task_id, temp_files>>
    /\ UNCHANGED <<merge_vars, experiment_vars, transfer_vars, pool_vars, validate_vars,
                   path_vars>>

\* invocations on one manifest, interrupted or not, in which no write of the
\* manifest fails
PersistVersionOk == PersistVersion /\ persist_result' # "failed"

RunsNext ==
    \/ Prepare
    \/ StartAttempt
    \/ \E i \in DOMAIN tasks : StartTask(i)
    \/ \E i \in DOMAIN tasks : CollectResult(i)
    \/ ReturnFromUpload
    \/ PersistVersionOk
    \/ DecideSuccess
    \/ DecideRetry
    \/ DecideFail
    \/ CreateSummary
    \/ Finish
    \/ Interrupt
    \/ Restart

SpecRuns == Init /\ [][RunsNext]_vars

\* ===================================================== properties: upload
VersionKey == "last_submission_version"

\* the attempt whose tasks are in `tasks` has been evaluated by main
PostDecide ==
    \/ pc \in {"summary", "cleanup", "exit_success", "exit_failure"}
    \/ pc = "loop" /\ attempt > 0

\* the version of the current attempt has been offered to the manifest
AfterPersist == pc \in {"decide", "summary", "cleanup", "exit_success", "exit_failure"}

TaskCauses == {tasks[i].result.cause : i \in DOMAIN tasks}
TaskCodes == {tasks[i].result.error_code : i \in DOMAIN tasks}

\* ----------------------------------------------------------------- C1
C1_Scenario ==
    /\ last_version = None
    /\ Len(attempt_log) = 2
    /\ attempt_log[1].version = 0 /\ attempt_log[1].outcome = "all_conflict"
    /\ attempt_log[2].version = 1 /\ attempt_log[2].outcome = "all_ok"

C1_ZeroNeverPersisted ==
    (/\ Len(attempt_log) >= 1
     /\ attempt_log[1].version = 0
     /\ attempt_log[1].outcome = "all_conflict")
        => DictGet(manifest_file, VersionKey) # Some(0)

\* the conflict at version 0 is answered by an attempt at version 1
C1_ConflictLeadsToV1 ==
    (/\ last_version = None
     /\ Len(attempt_log) = 1
     /\ attempt_log[1].outcome = "all_conflict")
        => /\ pc \in {"loop", "uploading", "persist", "decide"}
           /\ attempt_version = 1

\* C1 as the specification states it: with no recorded version, when every
\* task of the attempt at version 0 fails with a conflict and every task of
\* the attempt at version 1 succeeds, the scheduler ends in overall success,
\* the final upload path is the _v1 path, and the manifest records version 1
\* at the end, version 0 never having been persisted.
C1_Original ==
    /\ C1_Scenario =>
          /\ upload_successful
          /\ pc \in {"summary", "cleanup", "exit_success"}
          /\ final_upload_path = Some(sprint_folder \o <<"/">> \o task_id \o <<"_", "v", "1">>)
          /\ DictGet(manifest_file, VersionKey) = Some(1)
    /\ C1_ConflictLeadsToV1
    /\ C1_ZeroNeverPersisted

\* C1, amended: in that scenario the upload is marked successful with the _v1
\* path as the final upload path and version 0 is never persisted; when the
\* write of manifest.json succeeds the manifest records version 1 and the
\* scheduler ends in overall success; when that write fails (a warning only)
\* the manifest records no version, and the run still ends in success unless
\* the failed write left manifest.json unreadable, which ends it with an error
\* when the manifest is read again for the summary.
C1_Amended ==
    /\ C1_Scenario =>
          /\ upload_successful
          /\ final_upload_path = Some(sprint_folder \o <<"/">> \o task_id \o <<"_", "v", "1">>)
          /\ persist_result \in {"ok", "failed"}
          /\ persist_result = "ok"
                => /\ DictGet(manifest_file, VersionKey) = Some(1)
                   /\ pc \in {"summary", "cleanup", "exit_success"}
          /\ persist_result = "failed"
                => /\ DictGet(manifest_file, VersionKey) = None
                   /\ pc = "exit_failure" => manifest_file = TruncatedFile
                   /\ pc = "exit_success" => manifest_file # TruncatedFile
    /\ C1_ConflictLeadsToV1
    /\ C1_ZeroNeverPersisted

C1_Witness ==
    /\ C1_Scenario
    /\ pc = "exit_success"
    /\ persist_result = "ok"
    /\ DictGet(manifest_file, VersionKey) = Some(1)

\* ----------------------------------------------------------------- C2
C2_SomeTaskSucceeded == "none" \in TaskCauses

\* C2 as the specification states it: for every attempt in which at least
\* one task succeeded, the manifest's last_submission_version equals that
\* attempt's version once the attempt has been evaluated, even when the
\* attempt as a whole is a partial failure.
C2_Original ==
    (AfterPersist /\ C2_SomeTaskSucceeded)
        => DictGet(manifest_file, VersionKey) = Some(attempt_version)

\* C2, amended: for every attempt in which at least one task succeeded, the
\* write of that attempt's version to the manifest is tried once the attempt
\* returns, partial failure included; when the write succeeds the manifest's
\* last_submission_version equals the attempt's version, and when it fails
\* the manifest does not record the attempt's version.
C2_Amended ==
    (AfterPersist /\ C2_SomeTaskSucceeded)
        => /\ persist_result \in {"ok", "failed"}
           /\ persist_result = "ok"
                 => DictGet(manifest_file, VersionKey) = Some(attempt_version)
           /\ persist_result = "failed"
                 => DictGet(manifest_file, VersionKey) # Some(attempt_version)

C2_Witness ==
    /\ pc = "exit_failure"
    /\ C2_SomeTaskSucceeded
    /\ "other" \in TaskCauses
    /\ attempt_version = 1
    /\ DictGet(manifest_file, VersionKey) = Some(1)

\* ----------------------------------------------------------------- C3
C3_StartVersion == IF last_version = None THEN 0 ELSE last_version[1] + 1

\* C3: one submission starts at most 5 attempts, at the versions start,
\* start+1, ..., start+4 in this order; when the fifth attempt still fails
\* the submission ends in overall failure and no sixth version is attempted.
C3_AtMostFiveAttempts ==
    /\ Len(attempt_log) <= 5
    /\ \A k \in DOMAIN attempt_log : attempt_log[k].version = C3_StartVersion + (k - 1)
    /\ pc \in {"uploading", "persist", "decide"}
          => /\ Len(attempt_log) <= 4
             /\ attempt_version = C3_StartVersion + Len(attempt_log)
    /\ (Len(attempt_log) = 5 /\ attempt_log[5].outcome # "all_ok")
          => /\ pc = "exit_failure"
             /\ ~upload_successful
             /\ final_upload_path = None

C3_Witness ==
    /\ Len(attempt_log) = 5
    /\ attempt_log[5].outcome = "all_conflict"
    /\ attempt_log[5].version = C3_StartVersion + 4
    /\ pc = "exit_failure"

\* ----------------------------------------------------------------- C4
C4_NonConflictFailure == TaskCauses \cap {"network", "other"} # {}
C4_ConflictClassFailure == TaskCauses \cap {"conflict", "authorization"} # {}

\* C4 as the specification states it: when any task of an attempt ends in a
\* non-conflict failure (transient retries exhausted, or a terminal error),
\* the submission stops in overall failure after that attempt and no further
\* version is attempted.
C4_Original ==
    (PostDecide /\ C4_NonConflictFailure) => pc = "exit_failure"

\* C4, amended: a task that exhausts its transient retries or hits a terminal
\* error is reported with the code "other"; when an attempt has such a failure
\* and no task reported with the code 403 or 409, the submission stops in
\* overall failure after that attempt and no further version is attempted;
\* in the mixed case, where another task of the attempt was reported with 403
\* or 409, the next version is attempted as long as attempts remain, and the
\* submission stops in overall failure only after the fifth attempt.
C4_Amended ==
    /\ (PostDecide /\ "other" \in TaskCodes /\ TaskCodes \cap ConflictCodes = {})
          => pc = "exit_failure"
    /\ (PostDecide /\ "other" \in TaskCodes /\ TaskCodes \cap ConflictCodes # {})
          => \/ pc = "loop" /\ Len(attempt_log) < 5
             \/ pc = "exit_failure" /\ Len(attempt_log) = 5
    /\ \A i \in DOMAIN tasks :
          tasks[i].result.cause \in {"network", "other"}
              => tasks[i].result.error_code = "other"

C4_Witness ==
    /\ pc = "exit_failure"
    /\ Len(attempt_log) = 1
    /\ "network" \in TaskCauses
    /\ ~C4_ConflictClassFailure

\* ----------------------------------------------------------------- C5
C5_OnlyAuthorizationFailures ==
    /\ "authorization" \in TaskCauses
    /\ TaskCauses \subseteq {"authorization", "none"}

\* C5 as the specification states it: a task whose transfer fails with an
\* authorization error (403 / forbidden) is not reported as a conflict, and
\* never causes a version increment.
C5_Original ==
    /\ \A i \in DOMAIN tasks :
          (tasks[i].state = "collected" /\ tasks[i].result.cause = "authorization")
              => ~HadConflictErrors
    /\ (pc = "loop" /\ attempt > 0) => ~C5_OnlyAuthorizationFailures

\* C5, amended: a task whose transfer fails with an authorization error
\* (403 / forbidden) ends with error code 403, which the scheduler counts as
\* conflict-class like 409: an attempt whose only failures are authorization
\* errors causes a version increment and a new attempt as long as attempts
\* remain, and ends the submission in failure only after the fifth attempt.
C5_Amended ==
    /\ \A i \in DOMAIN tasks :
          tasks[i].result.cause = "authorization"
              => /\ ~tasks[i].result.success
                 /\ tasks[i].result.error_code = "403"
                 /\ tasks[i].state = "collected" => "403" \in conflict_error_codes
    /\ (PostDecide /\ C5_OnlyAuthorizationFailures)
          => \/ pc = "loop" /\ Len(attempt_log) < 5
             \/ pc = "exit_failure" /\ Len(attempt_log) = 5

C5_Witness ==
    /\ pc = "loop"
    /\ attempt = 1
    /\ C5_OnlyAuthorizationFailures
    /\ attempt_version = C3_StartVersion + 1

\* the versions the version ledger is evaluated at
MaxLedgerVersion == 11

\* ----------------------------------------------------------------- C6
C6_FirstAttempt == pc \in {"loop", "uploading", "persist"} /\ attempt = 0

\* C6: the first attempt of a submission uses version 0 when the manifest has
\* no last_submission_version, and the recorded version plus one otherwise.
C6_FirstAttemptVersion ==
    /\ C6_FirstAttempt
          => attempt_version =
                IF VersionKey \in DOMAIN manifest_file
                THEN manifest_file[VersionKey] + 1
                ELSE 0
    /\ pc = "start"
          => /\ NextVersion(None) = 0
             /\ \A v \in 0..MaxLedgerVersion : NextVersion(Some(v)) = v + 1

C6_Witness ==
    /\ pc = "uploading"
    /\ attempt = 0
    /\ VersionKey \in DOMAIN manifest_file
    /\ manifest_file[VersionKey] = 0
    /\ attempt_version = 1
    /\ upload_path = sprint_folder \o <<"/">> \o task_id \o <<"_", "v", "1">>

\* ----------------------------------------------------------------- C7
PathTaskIds == {<<"T">>, <<"T", "2">>, <<"a", "_", "b">>}

IsDigit(c) == \E d \in 1..10 : DigitChars[d] = c
DigitValue(c) == CHOOSE d \in 0..9 : DigitChars[d + 1] = c

\* the number a decimal numeral denotes
RECURSIVE ParseDecimal(_)
ParseDecimal(ds) ==
    IF ds = <<>> THEN 0
    ELSE 10 * ParseDecimal(SubSeq(ds, 1, Len(ds) - 1)) + DigitValue(ds[Len(ds)])

\* path is folder/task for version 0 and folder/task_v<N> for version N >= 1
IsPathOfVersion(path, folder, task, v) ==
    LET prefix == folder \o <<"/">> \o task
        rest == SubSeq(path, Len(prefix) + 1, Len(path))
    IN  /\ Len(path) >= Len(prefix)
        /\ SubSeq(path, 1, Len(prefix)) = prefix
        /\ IF v = 0 THEN rest = <<>>
           ELSE /\ Len(rest) >= 3
                /\ rest[1] = "_" /\ rest[2] = "v" /\ rest[3] # "0"
                /\ \A k \in 3..Len(rest) : IsDigit(rest[k])
                /\ ParseDecimal(SubSeq(rest, 3, Len(rest))) = v

\* the paths of the attempts made so far, the running one included
C7_AttemptPaths ==
    [k \in 1..Len(attempt_log) |->
        [version |-> attempt_log[k].version, upload_path |-> attempt_log[k].upload_path]]
    \o (IF pc \in {"uploading", "persist", "decide"}
        THEN <<[version |-> attempt_version, upload_path |-> upload_path]>>
        ELSE <<>>)

\* C7: the remote path of an attempt is <sprintFolder>/<taskId> for version 0
\* and <sprintFolder>/<taskId>_v<N> for version N >= 1; the attempts of one
\* task at distinct versions have distinct paths; every artifact of an
\* attempt is written to <that path>/<relativeLocalPath>.
C7_VersionedPaths ==
    LET paths == C7_AttemptPaths IN
    /\ \A k \in DOMAIN paths :
          IsPathOfVersion(paths[k].upload_path, sprint_folder, task_id, paths[k].version)
    /\ \A j, k \in DOMAIN paths :
          paths[j].version # paths[k].version
              => paths[j].upload_path # paths[k].upload_path
    /\ pc \in {"uploading", "persist", "decide"}
          => /\ Len(tasks) = Len(upload_files)
             /\ \A i \in DOMAIN tasks :
                   /\ tasks[i].local_file = upload_files[i]
                   /\ tasks[i].remote_file_path
                          = upload_path \o <<"/">> \o upload_files[i]
    /\ pc = "start"
          => \A t \in PathTaskIds : \A v, w \in 0..MaxLedgerVersion :
                /\ IsPathOfVersion(get_upload_path_from_version(sprint_folder, t, v),
                                   sprint_folder, t, v)
                /\ v # w => get_upload_path_from_version(sprint_folder, t, v)
                               # get_upload_path_from_version(sprint_folder, t, w)

C7_Witness ==
    /\ pc = "uploading"
    /\ Len(attempt_log) = 2
    /\ attempt_log[1].upload_path = sprint_folder \o <<"/">> \o task_id
    /\ attempt_log[2].upload_path = sprint_folder \o <<"/">> \o task_id \o <<"_", "v", "1">>
    /\ upload_path = sprint_folder \o <<"/">> \o task_id \o <<"_", "v", "2">>
    /\ \E i \in DOMAIN tasks :
          tasks[i].remote_file_path = upload_path \o <<"/">> \o ManifestJson

\* ----------------------------------------------------------------- C17
\* every task of the attempt has ended, succeeded or failed
AllTerminated == \A i \in DOMAIN tasks : tasks[i].state = "collected"

\* C17: the version is written to the manifest, the outcome of the attempt is
\* evaluated and the next attempt is started only when every task of the
\* attempt has succeeded or failed: none of these happens while a transfer is
\* pending or in flight
C17_JoinBarrier ==
    [][/\ (manifest_file' # manifest_file \/ persist_result' # persist_result
             \/ final_version' # final_version) =>
             AllTerminated /\ Running = {}
       /\ attempt_log' # attempt_log => AllTerminated
       /\ (pc' = "uploading" /\ pc # "uploading" /\ attempt > 0) => AllTerminated
       /\ (pc \in {"persist", "decide"} => AllTerminated)]_vars

\* a second attempt is uploading, after the first one's version was written,
\* with one transfer over and another in flight
C17_Witness ==
    /\ pc = "uploading"
    /\ attempt >= 1
    /\ final_version # None
    /\ Running # {}
    /\ \E i \in DOMAIN tasks : tasks[i].state = "collected"

\* ====================================================== properties: merge
\* the consolidated files the merge was given, wherever they are now
InputFiles == {f \in lane_dir \cup backup_dir : f.sid # MergedSessionId /\ ~f.raw}

\* the consolidated file the merge has written
MergedFiles == {f \in lane_dir : f.sid = MergedSessionId /\ ~f.raw}

IsMessageLine(line) == line.parses /\ Get(line.event, "type", "") \in MessageTypes

MessageLines(f) == SelectSeq(f.lines, IsMessageLine)

\* the message lines of the input, as (file, line number) pairs
InputMessageLines ==
    UNION {{<<f.sid, i>> : i \in {j \in DOMAIN f.lines : IsMessageLine(f.lines[j])}}
           : f \in InputFiles}

\* the input line a merged message line was made from (uuid is kept by the merge)
InputEvent(event) ==
    LET f == CHOOSE g \in InputFiles : g.sid = event["uuid"].file
        i == CHOOSE j \in DOMAIN f.lines :
                 IsMessageLine(f.lines[j]) /\ f.lines[j].event["uuid"] = event["uuid"]
    IN f.lines[i].event

\* ----------------------------------------------------------------- C8
\* the instant a message's timestamp denotes; 0, the minimum, when the
\* timestamp is missing or unparsable
C8_Instant(event) ==
    IF "timestamp" \notin DOMAIN event THEN 0
    ELSE LET ts == event["timestamp"] IN
         CASE ts.fmt = "Z" -> ts.local
           [] ts.fmt = "offset" -> ts.local - ts.offset
           [] ts.fmt = "naive" -> ts.local
           [] OTHER -> 0

\* C8: the message lines of the merged consolidated file are all the message
\* lines of the input sessions, in non-decreasing timestamp order, the lines
\* with a missing or unparsable timestamp counting as the minimum and
\* therefore coming first.
C8_TimestampOrdering ==
    \A f \in MergedFiles :
        LET ms == MessageLines(f) IN
        /\ Len(ms) = Cardinality(InputMessageLines)
        /\ \A i \in 1..(Len(ms) - 1) :
              C8_Instant(ms[i].event) <= C8_Instant(ms[i + 1].event)
        /\ \A i, j \in DOMAIN ms :
              (C8_Instant(ms[i].event) = 0 /\ C8_Instant(ms[j].event) > 0) => i < j

C8_Witness ==
    \E f \in MergedFiles :
        LET ms == MessageLines(f) IN
        /\ Len(ms) = 2
        /\ ms[1].event["uuid"].file = processed_files[2]
        /\ ms[2].event["uuid"].file = processed_files[1]
        /\ ms[1].event["uuid"].n > ms[2].event["uuid"].n
        /\ C8_Instant(ms[1].event) > 0
        /\ C8_Instant(ms[1].event) < C8_Instant(ms[2].event)

\* ----------------------------------------------------------------- C10
\* C10 as the specification states it: every message line of a merged output
\* has session_id equal to the merged id and original_session_id equal to the
\* session id of the input file it was read from, also when the message
\* carries no session_id or one that differs from its file's id.
C10_Original ==
    \A f \in MergedFiles : \A i \in DOMAIN f.lines :
        IsMessageLine(f.lines[i])
            => /\ f.lines[i].event["session_id"] = MergedSessionId
               /\ f.lines[i].event["original_session_id"] = f.lines[i].event["uuid"].file

\* C10, amended: every message line of a merged output has session_id equal
\* to the merged id and original_session_id equal to the session_id the
\* message itself carried in its input file, or "unknown" when it carried
\* none; this is the session id of the input file for the messages that
\* carry their file's id.
C10_Amended ==
    \A f \in MergedFiles : \A i \in DOMAIN f.lines :
        IsMessageLine(f.lines[i])
            => LET out == f.lines[i].event
                   in == InputEvent(out)
               IN /\ out["session_id"] = MergedSessionId
                  /\ out["original_session_id"] =
                        IF "session_id" \in DOMAIN in THEN in["session_id"] ELSE "unknown"
                  /\ ("session_id" \in DOMAIN in /\ in["session_id"] = out["uuid"].file)
                        => out["original_session_id"] = out["uuid"].file

C10_Witness ==
    \E f \in MergedFiles :
        LET ms == MessageLines(f) IN
        /\ Len(ms) = 2
        /\ "session_id" \notin DOMAIN InputEvent(ms[1].event)
        /\ ms[1].event["original_session_id"] = "unknown"
        /\ ms[2].event["original_session_id"] = ms[2].event["uuid"].file
        /\ ms[1].event["session_id"] = MergedSessionId
        /\ ms[2].event["session_id"] = MergedSessionId

\* ----------------------------------------------------------------- C9
\* the summary payload of an input file: the summary_data of its summary
\* line, nothing when it has no summary line or the line has no summary_data
C9_Payload(f) ==
    LET idx == {i \in DOMAIN f.lines :
                   f.lines[i].parses /\ Get(f.lines[i].event, "type", "") = "session_summary"}
    IN IF idx = {} THEN EmptyDict
       ELSE Get(f.lines[CHOOSE i \in idx : \A j \in idx : j <= i].event,
                "summary_data", EmptyDict)

\* the number at a path of keys in a payload, 0 when a key is absent
RECURSIVE C9_Lookup(_, _)
C9_Lookup(d, path) ==
    IF path = <<>> THEN d
    ELSE IF Head(path) \in DOMAIN d THEN C9_Lookup(d[Head(path)], Tail(path))
    ELSE 0

RECURSIVE C9_Sum(_, _)
C9_Sum(files, path) ==
    IF files = {} THEN 0
    ELSE LET f == CHOOSE x \in files : TRUE IN
         C9_Lookup(C9_Payload(f), path) + C9_Sum(files \ {f}, path)

C9_Max(files, path) ==
    LET values == {0} \cup {C9_Lookup(C9_Payload(f), path) : f \in files} IN
    CHOOSE m \in values : \A v \in values : v <= m

\* the names counted in a by-name table of the inputs
C9_Names(files, section, table) ==
    UNION {DOMAIN Get(Get(C9_Payload(f), section, EmptyDict), table, EmptyDict) : f \in files}

\* C9: every counter of the aggregate (duration, message counts, user
\* metrics, token totals, tool totals, thinking totals, each name of
\* tool_calls_by_type and of thinking_levels) is the sum of that field over
\* the input summaries, an absent field counting as 0; files_changed_count
\* and lines_of_code_changed_count are the maximum over the inputs.
C9_AggregationRules ==
    merged # None =>
       LET agg == merged[1].summary["summary_data"]
           S == InputFiles
       IN /\ \A f \in {"total_duration_seconds", "total_messages", "assistant_messages",
                       "user_prompts"} : agg[f] = C9_Sum(S, <<f>>)
          /\ \A f \in {"user_prompts", "tool_results", "system_messages",
                       "total_user_events"} :
                agg["user_metrics"][f] = C9_Sum(S, <<"user_metrics", f>>)
          /\ \A f \in {"total_input_tokens", "total_output_tokens",
                       "total_cache_creation_tokens", "total_cache_read_tokens",
                       "total_ephemeral_5m_tokens", "total_ephemeral_1h_tokens",
                       "total_actual_input_tokens"} :
                agg["usage_totals"][f] = C9_Sum(S, <<"usage_totals", f>>)
          /\ \A f \in {"total_tool_calls", "total_tool_results"} :
                agg["tool_metrics"][f] = C9_Sum(S, <<"tool_metrics", f>>)
          /\ \A f \in {"thinking_enabled_turns", "thinking_disabled_turns",
                       "assistant_with_thinking_blocks",
                       "assistant_thinking_blocks_captured"} :
                agg["thinking_metrics"][f] = C9_Sum(S, <<"thinking_metrics", f>>)
          /\ DOMAIN agg["tool_metrics"]["tool_calls_by_type"]
                = C9_Names(S, "tool_metrics", "tool_calls_by_type")
          /\ \A name \in C9_Names(S, "tool_metrics", "tool_calls_by_type") :
                agg["tool_metrics"]["tool_calls_by_type"][name]
                    = C9_Sum(S, <<"tool_metrics", "tool_calls_by_type", name>>)
          /\ DOMAIN agg["thinking_metrics"]["thinking_levels"]
                = C9_Names(S, "thinking_metrics", "thinking_levels")
          /\ \A name \in C9_Names(S, "thinking_metrics", "thinking_levels") :
                agg["thinking_metrics"]["thinking_levels"][name]
                    = C9_Sum(S, <<"thinking_metrics", "thinking_levels", name>>)
          /\ \A f \in {"files_changed_count", "lines_of_code_changed_count"} :
                agg["git_metrics"][f] = C9_Max(S, <<"git_metrics", f>>)

C9_Witness ==
    /\ merged # None
    /\ Cardinality(InputFiles) = 3
    /\ {C9_Lookup(C9_Payload(f), <<"usage_totals", "total_input_tokens">>) : f \in InputFiles}
          = {10, 20, 5}
    /\ {C9_Lookup(C9_Payload(f), <<"git_metrics", "files_changed_count">>) : f \in InputFiles}
          = {3, 7, 2}
    /\ merged[1].summary["summary_data"]["usage_totals"]["total_input_tokens"] = 35
    /\ merged[1].summary["summary_data"]["git_metrics"]["files_changed_count"] = 7
    /\ merged[1].summary["summary_data"]["tool_metrics"]["tool_calls_by_type"]
          = [Read |-> 3, Edit |-> 5, Bash |-> 3]

\* ================================================= properties: lane merges
\* the files of a lane that merge_sessions did not write
OriginalFiles(dir) == {f \in dir : f.sid # MergedSessionId}

\* the raw files of a directory that match none of its consolidated files
UnmatchedRaw(dir) ==
    {f \in dir : f.raw /\ ~\E g \in dir : ~g.raw /\ g.sid = f.sid}

Succeeded == m_pc = "done" /\ merge_result = "true"

\* ----------------------------------------------------------------- C11
\* no step of a merge deletes or rewrites a file it was given: each one is
\* afterwards in the lane directory or in original_sessions/, as it was
C11_FilesKept ==
    \A f \in OriginalFiles(lane_dir \cup backup_dir) : f \in lane_dir' \cup backup_dir'

\* after a successful merge the consolidated files and the raw files matched to
\* them are in original_sessions/ and no longer in the lane directory
C11_OriginalsInBackup ==
    /\ backup_exists
    /\ Len(processed_files) >= 2
    /\ \A i \in DOMAIN processed_files :
          \E f \in backup_dir : f.sid = processed_files[i] /\ ~f.raw
    /\ \A f \in OriginalFiles(lane_dir \cup backup_dir) :
          (~f.raw \/ \E g \in backup_dir : ~g.raw /\ g.sid = f.sid)
             <=> (f \in backup_dir /\ f \notin lane_dir)

C11_OneConsolidated == Cardinality({f \in lane_dir : ~f.raw}) = 1

\* the claim as stated: at most one raw file is left in the lane directory
C11_Original ==
    Succeeded =>
       /\ C11_OriginalsInBackup
       /\ C11_OneConsolidated
       /\ Cardinality({f \in lane_dir : f.raw}) <= 1

\* C11, amended: a merge never deletes or rewrites a file it was given; after a
\* successful merge of N >= 2 sessions the N consolidated files and every raw
\* file matched to one of them are in the backup subdirectory, and the lane
\* directory holds exactly one consolidated file and, besides the raw files
\* that match no consolidated file (which stay where they were), at most one
\* raw file
C11_Amended ==
    [][/\ C11_FilesKept
       /\ Succeeded' =>
             /\ C11_OriginalsInBackup'
             /\ C11_OneConsolidated'
             /\ Cardinality({f \in lane_dir' : f.raw /\ f.sid = MergedSessionId}) <= 1
             /\ {f \in lane_dir' : f.raw /\ f.sid # MergedSessionId}
                   = UnmatchedRaw(lane_dir' \cup backup_dir')
                        \ backup_dir']_vars

\* a merge of two sessions, one of them with a raw file, in a lane that also
\* holds a raw file of no session, has succeeded
C11_Witness ==
    /\ Succeeded
    /\ \E f \in backup_dir : f.raw
    /\ \E f \in lane_dir : f.raw /\ f.sid = OrphanId
    /\ \E f \in lane_dir : f.raw /\ f.sid = MergedSessionId

\* the consolidated files a merge was given, wherever they are now
GivenFiles == {f \in OriginalFiles(lane_dir \cup backup_dir) : ~f.raw}

HasEvent(f, type) ==
    \E i \in DOMAIN f.lines : f.lines[i].parses /\ Get(f.lines[i].event, "type", "") = type

Complete(f) == f.readable /\ HasEvent(f, "session_start") /\ HasEvent(f, "session_end")

MergeOver == m_pc \in {"done", "crashed"}

\* ----------------------------------------------------------------- C13
\* two or more readable consolidated files, one at least without session_start
\* or without session_end
C13_MissingBoundary ==
    /\ Cardinality(GivenFiles) >= 2
    /\ \A f \in GivenFiles : f.readable
    /\ \E f \in GivenFiles : ~Complete(f)

\* C13: a merge of two or more sessions of which one lacks its session_start or
\* its session_end does not fail: it ends having written the merged file, with
\* a start and an end record, and having moved the originals to the backup
C13_MissingBoundaryNonFatal ==
    (C13_MissingBoundary /\ MergeOver) =>
       /\ Succeeded
       /\ \E f \in MergedFiles : HasEvent(f, "session_start") /\ HasEvent(f, "session_end")
       /\ \A f \in GivenFiles : f \in backup_dir /\ f \notin lane_dir

\* ----------------------------------------------------------------- C14
\* two or more consolidated files, one at least unreadable, the readable ones
\* complete
C14_ReadError ==
    /\ Cardinality(GivenFiles) >= 2
    /\ \E f \in GivenFiles : ~f.readable
    /\ \A f \in GivenFiles : f.readable => Complete(f)

\* C14: a file that cannot be read contributes no events and the merge of the
\* others still succeeds; the merge reports failure only when it found fewer
\* than two consolidated files
C14_ReadErrorNonFatal ==
    /\ (C14_ReadError /\ MergeOver) =>
          /\ Succeeded
          /\ \A i \in DOMAIN processed_files :
                (\E f \in GivenFiles : f.sid = processed_files[i] /\ ~f.readable)
                   => all_session_data[i] = extract_session_data(<<>>)
    /\ merge_result = "false" => Cardinality(GivenFiles) < 2

\* ================================================ properties: experiments
Consolidated(files) == {f \in files : ~f.raw}

\* a lane directory that exists and holds fewer than two consolidated files
NoOpLane(lane) == lane.exists /\ Cardinality(Consolidated(lane.files)) < 2

\* the lane the loop of merge_experiment deals with in this step
Checked(model) == model \notin DOMAIN lane_message /\ model \in DOMAIN lane_message'

\* the step that prints MERGE SUMMARY
Summarised == x_pc = "lanes" /\ x_pc' = "exit"

\* the directory main was given holds fewer than two consolidated files (and is
\* not what a merge has left)
DirectNoOp ==
    target = "lane" /\ merge_result # "true" /\ Cardinality(Consolidated(lane_dir)) < 2

\* ----------------------------------------------------------------- C12
\* nothing is created, rewritten or moved in a lane of fewer than two
\* consolidated files, whether the lane is one of an experiment or the
\* directory main was given
C12_Frame ==
    /\ \A model \in DOMAIN logs_dir :
          NoOpLane(logs_dir[model]) => logs_dir'[model] = logs_dir[model]
    /\ DirectNoOp => UNCHANGED <<lane_dir, backup_dir, backup_exists>>

\* the claim as stated: every such lane is reported as needing no merge, never
\* as skipped or failed
C12_Original ==
    [][/\ C12_Frame
       /\ \A model \in DOMAIN logs_dir :
             /\ (Checked(model) /\ NoOpLane(logs_dir[model])) =>
                   lane_message'[model] = "no merge needed"
             /\ (Summarised /\ NoOpLane(logs_dir[model])
                   /\ model \in DOMAIN summary_lines') =>
                   summary_lines'[model] \notin {"Skipped", "Failed"}
       /\ (DirectNoOp /\ x_pc' = "exit") => exit_status' # "1"]_vars

\* C12, amended: a lane with 0 or 1 consolidated files has no file created,
\* modified or moved (no output file, no backup directory); in the merge of an
\* experiment a lane with exactly one consolidated file is reported as "no
\* merge needed" and OK, a lane with none as skipped, neither as failed; a
\* merge run on such a directory itself returns False and exits with status 1
C12_Amended ==
    [][/\ C12_Frame
       /\ \A model \in DOMAIN logs_dir :
             LET n == Cardinality(Consolidated(logs_dir[model].files)) IN
             /\ (Checked(model) /\ NoOpLane(logs_dir[model])) =>
                   /\ lane_message'[model] =
                         (IF n = 1 THEN "no merge needed"
                          ELSE "No session files found, skipping")
                   /\ results'[model] = (IF n = 1 THEN "True" ELSE "None")
                   /\ x_pc' = "lanes"
             /\ (Summarised /\ NoOpLane(logs_dir[model])
                   /\ lane_message[model] # "Processing") =>
                   summary_lines'[model] = (IF n = 1 THEN "OK" ELSE "Skipped")
       /\ (DirectNoOp /\ x_pc' = "exit") =>
             exit_status' = "1" /\ merge_result' = "false"]_vars

\* an experiment with one lane of a single session and one lane of none has
\* been dealt with
C12_Witness ==
    /\ x_pc = "exit"
    /\ target = "experiment"
    /\ \E a, b \in DOMAIN summary_lines :
          /\ Cardinality(Consolidated(logs_dir[a].files)) = 1
          /\ lane_message[a] = "no merge needed"
          /\ logs_dir[b].exists
          /\ Cardinality(Consolidated(logs_dir[b].files)) = 0
          /\ lane_message[b] = "No session files found, skipping"

\* ----------------------------------------------------------------- C19
\* the status of a lane: what the loop printed for it and the result it kept
LaneStatus(model) ==
    IF model \notin DOMAIN results THEN "no status"
    ELSE IF results[model] = "False" THEN "failed"
    ELSE IF results[model] = "None" THEN "skipped-missing"
    ELSE IF lane_message[model] = "no merge needed" THEN "no-merge-needed"
    ELSE "merged"

\* C19: when the merge of an experiment is over each of the two lanes has been
\* processed and has one of the four statuses, whatever happened in the other
\* lane, and the run is a success exactly when no lane has failed
C19_TwoLaneResult ==
    (x_pc = "exit" /\ target = "experiment" /\ logs_exists) =>
       /\ \A model \in {"model_a", "model_b"} :
             LaneStatus(model) \in {"no-merge-needed", "merged", "skipped-missing", "failed"}
       /\ exit_status = "0" <=>
             \A model \in {"model_a", "model_b"} : LaneStatus(model) # "failed"

\* the same, of the runs in which no merge raised
C19_UnlessRaised == exit_status # "exception" => C19_TwoLaneResult

\* ================================================= properties: one transfer
Returned == t_pc = "returned"

\* the tries the call made
TriesMade == {k \in 1..Len(t_env.tries) : k <= t_result[1].n_tries}

\* ----------------------------------------------------------------- C15
\* C15: one transfer makes at most 3 tries; if every try it makes fails with
\* an error classified as transient it makes exactly 3 and returns a failure
\* that is not a conflict; if a try succeeds it returns success at once,
\* making no further try
C15_TransientRetryBound ==
    Returned =>
       LET r == t_result[1]
           tries == t_env.tries
       IN /\ r.n_tries <= 3
          /\ (TriesMade # {}
                /\ \A k \in TriesMade : tries[k] # NoError /\ IsTransient(tries[k])) =>
                /\ r.n_tries = 3
                /\ ~r.success
                /\ r.error_code \notin {"403", "409"}
          /\ \A k \in TriesMade :
                tries[k] = NoError => r.success /\ r.n_tries = k /\ Len(r.sleeps) = k - 1
          /\ r.success => \E k \in TriesMade : tries[k] = NoError

\* three transient failures, the last with a 409 in its message, and a fourth
\* try that would have succeeded
C15_Witness ==
    /\ Returned
    /\ Len(t_env.tries) >= 4
    /\ t_result[1].n_tries = 3
    /\ \A k \in 1..3 : IsTransient(t_env.tries[k])
    /\ t_env.tries[3] = ErrConnectionAfter409
    /\ t_env.tries[4] = NoError

C18_BoundedConcurrency ==
    /\ pool_pc \in {"waiting", "returned"} =>
          \A i \in DOMAIN pool : pool[i].state # "new"
    /\ Cardinality(Busy) <= 5
    /\ Cardinality(Busy) = 5 => \A i \in DOMAIN pool : ~ENABLED PoolStart(i)
    /\ (\E s \in Busy : pool[s].state = "sleeping") =>
          /\ \A i \in Busy : pool[i].state = "running" => ENABLED PoolTry(i)
          /\ (Cardinality(Busy) < 5 /\ \E i \in DOMAIN pool : pool[i].state = "queued")
                => \E i \in DOMAIN pool : ENABLED PoolStart(i)

\* five transfers hold the five workers, one of them asleep and one in a try,
\* and a sixth is queued
C18_Witness ==
    /\ Cardinality(Busy) = 5
    /\ \E i \in Busy : pool[i].state = "sleeping"
    /\ \E i \in Busy : pool[i].state = "running"
    /\ \E i \in DOMAIN pool : pool[i].state = "queued"

\* ==================================================== properties: validation
\* the required items that are absent: files, directories, and the mandatory
\* session log of a lane of a logs directory that is there
MissingItems(fs) ==
    {it \in Range(required_files) \cup Range(required_dirs) : it \notin fs.present}
    \cup {SessionLog(m) : m \in {mm \in {"model_a", "model_b"} :
                                   "logs" \in fs.present /\ fs.sessions[mm] = 0}}

\* ----------------------------------------------------------------- C20
\* C20: whatever set of required items is absent, validation fails once, with
\* a message that lists every one of them
C20_ReportsEverything ==
    v_pc # "called" =>
       /\ MissingItems(v_fs) # {} => v_pc = "exited"
       /\ (v_pc = "exited" /\ MissingItems(v_fs) # {}) =>
             Range(v_result[1].items) = MissingItems(v_fs)

\* the same, of the directories in which manifest.json, snapshots and one
\* session log per lane are there
C20_OfTheCollectedItems ==
    (/\ {"manifest.json", "snapshots"} \subseteq v_fs.present
     /\ "logs" \in v_fs.present => \A m \in {"model_a", "model_b"} : v_fs.sessions[m] = 1)
       => C20_ReportsEverything

\* ------------------------------------------------ upload properties, persist
\* the step of main that calls update_manifest_version (lines 752-757)
Persisting == pc = "persist" /\ ShouldPersist

\* C21: a persist that succeeds writes the version of the attempt into
\* last_submission_version and keeps every other field of the manifest with
\* its value; persisting the same version into the manifest just written
\* changes nothing; and whether the persist succeeds or fails, the scheduler
\* goes on to the decision of the attempt (a failure is a warning only).
C21_Persist ==
    [][Persisting =>
          /\ pc' = "decide"
          /\ persist_result' \in {"ok", "failed"}
          /\ persist_result' = "ok" =>
                /\ DOMAIN manifest_file' =
                       DOMAIN manifest_file \cup {"last_submission_version"}
                /\ manifest_file'["last_submission_version"] = attempt_version
                /\ \A k \in DOMAIN manifest_file \ {"last_submission_version"} :
                       manifest_file'[k] = manifest_file[k]
                /\ update_manifest_version(manifest_file', attempt_version)
                       = manifest_file']_vars

\* the second attempt of a run has persisted its version
C21_Witness ==
    /\ pc = "decide"
    /\ attempt = 1
    /\ persist_result = "ok"
    /\ attempt_version >= 1
    /\ manifest_file # TruncatedFile
    /\ manifest_file["last_submission_version"] = attempt_version

\* ---------------------------------------------- upload properties, interrupt
\* the remote paths the tasks of the attempt are known to have written
UploadedFiles ==
    {tasks[i].remote_file_path : i \in {j \in DOMAIN tasks : tasks[j].result.success}}

Interrupted == pc # "interrupted" /\ pc' = "interrupted"

\* C22: a whole-process interrupt, wherever the submission is, leaves neither
\* snapshots.zip nor submission_summary.json behind, ends the run with a failure
\* status, starts no attempt (the attempt counter, the version and the task list
\* stay as they are, and nothing happens afterwards), and every file already
\* uploaded is still uploaded.
C22_Interrupt ==
    [][/\ Interrupted =>
            /\ temp_files' = {}
            /\ ExitStatus' = Some(1)
            /\ UNCHANGED <<attempt, attempt_version, tasks>>
            /\ UploadedFiles \subseteq UploadedFiles'
       /\ pc = "interrupted" => UNCHANGED vars]_vars

\* interrupted after the second attempt of a run, which had persisted its
\* version, uploaded every file
C22_Witness ==
    /\ pc = "interrupted"
    /\ upload_successful
    /\ attempt = 1
    /\ persist_result = "ok"
    /\ UploadedFiles # {}
    /\ temp_files = {}

\* ------------------------------------------- upload properties, durability
\* the version the next run of the script would start with (lines 694-702)
NextRunVersion ==
    NextVersion(DictGet(manifest_file, "last_submission_version"))

\* a task of the running attempt is known to have succeeded and main has not
\* got the result of update_manifest_version for this attempt
SucceededUnpersisted == UploadedFiles # {} /\ persist_result = "none"

VersionIncrement ==
    \/ attempt' # attempt
    \/ pc # "start" /\ attempt_version' # attempt_version

AllCollected == \A i \in DOMAIN tasks : tasks[i].state = "collected"

\* every failure of the attempt is a transfer that used up its tries
OnlyTransientFailures ==
    /\ "network" \in TaskCauses
    /\ TaskCauses \subseteq {"network", "none"}

\* C24 as the specification states it: a new attempt at the next version is
\* started only after an attempt in which a task failed with a conflict (the
\* remote path was occupied), and an attempt whose failures are all exhausted
\* transient errors is followed by no attempt.
C24_Original ==
    /\ (pc = "loop" /\ attempt > 0) => "conflict" \in TaskCauses
    /\ (PostDecide /\ OnlyTransientFailures) => pc = "exit_failure"

\* C24, amended: the version is incremented, by one, and a new attempt started
\* only after an attempt, all of whose tasks have ended, in which at least one
\* task was reported with the code 409 (conflict) or 403 (authorization); an
\* attempt whose failures are all exhausted transient errors leads to no
\* increment and no further attempt.
C24_Amended ==
    [][/\ VersionIncrement =>
            /\ pc = "decide"
            /\ attempt_version' = attempt_version + 1
            /\ attempt' = attempt + 1
            /\ AllCollected
            /\ TaskCodes \cap ConflictCodes # {}
            /\ TaskCauses \cap {"conflict", "authorization"} # {}
            /\ \A i \in DOMAIN tasks :
                   tasks[i].remote_file_path =
                       RemoteFilePath(get_upload_path_from_version(
                           sprint_folder, task_id, attempt_version), tasks[i].local_file)
       /\ (pc = "decide" /\ OnlyTransientFailures) =>
            /\ pc' = "exit_failure"
            /\ UNCHANGED <<attempt, attempt_version>>]_vars

\* the third attempt is about to start after an attempt with a conflict and
\* an exhausted transient error
C24_Witness ==
    /\ pc = "loop"
    /\ attempt = 2
    /\ attempt_version = C3_StartVersion + 2
    /\ "conflict" \in TaskCauses
    /\ "network" \in TaskCauses

\* ------------------------------------------------- lane properties, records
\* the events of a type that read_session_events gets from a file
EventsOf(f, type) ==
    IF f.readable
    THEN {f.lines[i].event : i \in {j \in DOMAIN f.lines :
              f.lines[j].parses /\ Get(f.lines[j].event, "type", "") = type}}
    ELSE {}

InputEnds == UNION {EventsOf(f, "session_end") : f \in GivenFiles}

\* C25: the timestamp of the session_end record of a merged file is the latest
\* of the session_end timestamps of the input sessions that have one, also
\* when the session that ended last is not the one that started last.
C25_LatestEnd ==
    (Succeeded /\ InputEnds # {}) =>
        /\ \E e \in InputEnds : merged[1].end.timestamp = e.timestamp
        /\ \A e \in InputEnds :
              parse_timestamp(e.timestamp).t
                  <= parse_timestamp(merged[1].end.timestamp).t

InputStarts == UNION {EventsOf(f, "session_start") : f \in GivenFiles}

EarliestStart ==
    CHOOSE e \in InputStarts :
        \A o \in InputStarts :
            parse_timestamp(e.timestamp).t <= parse_timestamp(o.timestamp).t

\* C26: when two or more sessions are merged and at least one of them has a
\* session_start, also when another has none, the merge writes a session_start
\* record whose timestamp, cwd and git metadata are those of the earliest
\* session_start of the inputs.
C26_EarliestStart ==
    (MergeOver /\ Cardinality(GivenFiles) >= 2 /\ InputStarts # {}) =>
        /\ Succeeded
        /\ merged[1].start.timestamp = EarliestStart.timestamp
        /\ merged[1].start.cwd = Get(EarliestStart, "cwd", "")
        /\ merged[1].start.git_metadata = DictGet(EarliestStart, "git_metadata")

\* the same when every input has its session_start
C26_WhenEveryInputHasAStart ==
    (\A f \in GivenFiles : EventsOf(f, "session_start") # {}) => C26_EarliestStart

\* ------------------------------------------------ merge properties, ties
\* the place of a message's file in the sorted file list, and the place of
\* the message in its file
FileIndex(event) ==
    CHOOSE i \in DOMAIN processed_files : processed_files[i] = event["uuid"].file

LineIndex(event) ==
    LET f == CHOOSE g \in InputFiles : g.sid = event["uuid"].file IN
    CHOOSE j \in DOMAIN f.lines :
        IsMessageLine(f.lines[j]) /\ f.lines[j].event["uuid"] = event["uuid"]

\* the sort key of a consolidated file the merge was given
FileStart(sid) == get_start_time(CHOOSE g \in InputFiles : g.sid = sid)

C28_Serialization ==
    Succeeded =>
        \A f \in MergedFiles :
            LET n == Len(f.lines)
                type(i) == Get(f.lines[i].event, "type", "")
                input(t) == UNION {EventsOf(g, t) : g \in GivenFiles}
            IN /\ n >= 3
               /\ \A i \in 1..n : f.lines[i].parses
               /\ type(1) = "session_start"
               /\ \A i \in 2..(n - 2) : type(i) \in MessageTypes
               /\ type(n - 1) = "session_summary"
               /\ type(n) = "session_end"
               /\ n - 3 = Cardinality(UNION {EventsOf(g, t) :
                                                g \in GivenFiles, t \in MessageTypes})
               /\ f.lines[1].event = merged[1].start
               /\ f.lines[n - 1].event = merged[1].summary
               /\ f.lines[n].event = merged[1].end
               /\ \A i \in {1, n - 1, n} :
                     /\ f.lines[i].event.session_id = MergedSessionId
                     /\ f.lines[i].event \notin input(type(i))

\* two sessions, one of them with a session_summary, merged into a file of
\* five lines
C28_Witness ==
    /\ Succeeded
    /\ \E g \in GivenFiles : EventsOf(g, "session_summary") # {}
    /\ \E f \in MergedFiles : Len(f.lines) = 5

\* ------------------------------------------------- lane properties, raw
\* what a line says: the record of a JSON line, else its text without the
\* white space around it; a line of white space only says nothing
LineContent(line) == IF line.parses THEN line.event ELSE line.event.text
HasContent(line) == line.parses \/ line.event.text # ""

RECURSIVE MatchedRawInput(_)
\* the lines with content of the raw files that match the first n consolidated
\* files, in the order of these
MatchedRawInput(n) ==
    IF n = 0 THEN <<>>
    ELSE LET m == {f \in OriginalFiles(lane_dir \cup backup_dir) :
                       f.raw /\ f.sid = processed_files[n]}
         IN MatchedRawInput(n - 1)
            \o (IF m = {} THEN <<>>
                ELSE SelectSeq((CHOOSE f \in m : TRUE).lines, HasContent))

MergedRawFiles == {f \in lane_dir : f.sid = MergedSessionId /\ f.raw}

\* C29: the merged raw file holds, line for line, the lines of the raw files
\* matched to the consolidated files, in the order of the consolidated files,
\* and nothing of any other raw file; a record with a sessionId comes out with
\* sessionId the merged id, originalSessionId its former sessionId and its
\* other fields as they were; a record without sessionId and a line that is
\* no JSON come out with the content they had.
C29_RawMerge ==
    Succeeded =>
        LET in == MatchedRawInput(Len(processed_files)) IN
        /\ Cardinality(MergedRawFiles) = (IF Len(raw_files) > 0 THEN 1 ELSE 0)
        /\ Len(raw_files) = 0 => in = <<>>
        /\ \A f \in MergedRawFiles :
              /\ Len(f.lines) = Len(in)
              /\ \A i \in DOMAIN in :
                    LET old == in[i]
                        new == f.lines[i]
                    IN /\ new.parses = old.parses
                       /\ IF old.parses /\ "sessionId" \in DOMAIN old.event
                          THEN /\ DOMAIN new.event
                                     = DOMAIN old.event \cup {"originalSessionId"}
                               /\ new.event["sessionId"] = MergedSessionId
                               /\ new.event["originalSessionId"] = old.event["sessionId"]
                               /\ \A k \in DOMAIN old.event
                                             \ {"sessionId", "originalSessionId"} :
                                      new.event[k] = old.event[k]
                          ELSE LineContent(new) = LineContent(old)

\* two sessions with a raw file each merged in a lane that also holds a raw
\* file of no session
C29_Witness ==
    /\ Succeeded
    /\ Len(raw_files) = 2
    /\ \E f \in lane_dir : f.raw /\ f.sid = OrphanId
    /\ \E f \in MergedRawFiles : Len(f.lines) = 6

\* ------------------------------------------- aggregate properties, tier
\* the service_tier of the summary of the i-th file of the list, "" when the
\* file has no summary or the summary no such value
InputTier(i) ==
    LET f == CHOOSE g \in GivenFiles : g.sid = processed_files[i]
        sums == EventsOf(f, "session_summary")
    IN IF sums = {} THEN ""
       ELSE Get(Get(Get(CHOOSE e \in sums : TRUE, "summary_data", EmptyDict),
                    "usage_totals", EmptyDict), "service_tier", "")

NonEmptyTiers == {i \in DOMAIN processed_files : InputTier(i) # ""}

\* C30: the service_tier of the aggregate is that of the last summary, in the
\* order of the files, whose service_tier is not empty, whatever the summaries
\* after it hold, and None when no summary has one.
C30_ServiceTier ==
    Succeeded =>
        merged[1].summary.summary_data.usage_totals.service_tier
            = (IF NonEmptyTiers = {} THEN None
               ELSE Some(InputTier(CHOOSE i \in NonEmptyTiers :
                                       \A j \in NonEmptyTiers : j <= i)))

\* three summaries: "standard", then "priority", then an empty service_tier
C30_Witness ==
    /\ Succeeded
    /\ Len(processed_files) = 3
    /\ InputTier(1) = "standard"
    /\ InputTier(2) = "priority"
    /\ InputTier(3) = ""
    /\ merged[1].summary.summary_data.usage_totals.service_tier = Some("priority")

\* ------------------------------------------- transfer properties, backoff
\* every try the call made failed with an error classified as transient
AllTriesTransient ==
    /\ TriesMade # {}
    /\ \A k \in TriesMade : t_env.tries[k] # NoError /\ IsTransient(t_env.tries[k])

\* no sleep follows the last try of a call that ends with a success or with an
\* error that is not transient: the sleeps are those of the tries before it
NoDelayAfterLast ==
    LET r == t_result[1] IN
    (r.n_tries >= 1 /\ ~AllTriesTransient) => Len(r.sleeps) = r.n_tries - 1

UploadFailed == pc = "exit_failure" /\ ~upload_successful

\* C32: when the upload ends in overall failure, after a failure that is not
\* a conflict or after conflicts in the last attempt, neither snapshots.zip nor
\* submission_summary.json is left when the process has exited.
C32_CleanupOnFailure == UploadFailed => temp_files = {}

\* ------------------------------------------ upload properties, termination
Stopped == pc \in {"exit_success", "exit_failure"}

\* C33: every transfer returns a success or a failure after at most 3 tries;
\* every attempt that was started has all its tasks collected and reaches its
\* evaluation; and every submission eventually stops, with overall success or
\* with overall failure, and stays as it stopped.
C33_Termination ==
    /\ [](\A env \in TransferEnvs :
            /\ upload_file_to_supabase(env).n_tries <= 3
            /\ upload_file_to_supabase(env).success
                  \/ upload_file_to_supabase(env).error_code \in {"403", "409", "other"})
    /\ [](\A i \in DOMAIN tasks :
            tasks[i].state = "collected" => tasks[i].result \in TransferResults)
    /\ (pc = "uploading") ~> (pc = "decide" /\ AllCollected)
    /\ <>Stopped
    /\ [](pc = "exit_success" => [](pc = "exit_success"))
    /\ [](pc = "exit_failure" => [](pc = "exit_failure"))

\* a submission that stopped in failure after its fifth attempt
C33_Witness ==
    /\ Stopped
    /\ pc = "exit_failure"
    /\ Len(attempt_log) = max_attempts
    /\ AllCollected

\* ---------------------------------------------------------------- C34
InAttempt == pc \in {"uploading", "persist", "decide"}

\* C34: the k-th attempt of an invocation (k = 0..4) runs at version
\* start + k, so no version and no remote path is attempted twice in the
\* invocation; every attempt runs on a file list built by
\* get_file_list_for_upload and starts with no task outcome, no uploaded
\* file, no failed file and no conflict code of an earlier attempt.
C34_FreshAttempts ==
    /\ \A k \in DOMAIN attempt_log :
          /\ k <= 5
          /\ attempt_log[k].version = C3_StartVersion + (k - 1)
          /\ \A j \in DOMAIN attempt_log :
                j # k => /\ attempt_log[j].version # attempt_log[k].version
                         /\ attempt_log[j].upload_path # attempt_log[k].upload_path
    /\ InAttempt
          => /\ attempt = Len(attempt_log)
             /\ attempt_version = C3_StartVersion + attempt
             /\ \A j \in DOMAIN attempt_log :
                   /\ attempt_log[j].version # attempt_version
                   /\ attempt_log[j].upload_path # upload_path
             /\ upload_files = get_file_list_for_upload
             /\ DOMAIN tasks = DOMAIN upload_files
             /\ \A i \in DOMAIN tasks :
                   /\ tasks[i].local_file = upload_files[i]
                   /\ tasks[i].remote_file_path = RemoteFilePath(upload_path, upload_files[i])
                   /\ tasks[i].state # "collected" => tasks[i].result = NoResult
             /\ (\A i \in DOMAIN tasks : tasks[i].state # "collected")
                   => /\ uploaded_count = 0
                      /\ failed_files = <<>>
                      /\ conflict_error_codes = {}

C34_Witness ==
    /\ pc = "uploading"
    /\ Len(attempt_log) = 4
    /\ attempt_version = C3_StartVersion + 4
    /\ \A k \in DOMAIN attempt_log : attempt_log[k].outcome # "all_ok"
    /\ \A i \in DOMAIN tasks : tasks[i].state = "pending"
    /\ uploaded_count = 0

\* ---------------------------------------------------------------- C35
\* manifest["last_submission_version"] as main reads it, and its rank with
\* "never submitted" below every version
Persisted == DictGet(manifest_file, VersionKey)
VersionRank(x) == IF x = None THEN 0 - 1 ELSE x[1]

\* the value the invocation found in the manifest
StartValue == IF pc = "start" THEN Persisted ELSE last_version

\* the versions at which upload_experiment_data has been called
AttemptedVersions ==
    {attempt_log[k].version : k \in DOMAIN attempt_log}
        \cup (IF InAttempt THEN {attempt_version} ELSE {})

\* C35: as long as no write of the manifest failed (the file is a JSON
\* document), last_submission_version is its value at the start or the
\* version of an attempt of this invocation, and it changes only when main
\* saves the version of an attempt in which a file was uploaded; it never
\* decreases and never exceeds the highest version attempted; after overall
\* success with the version saved it is the version of the successful attempt.
C35_PersistedVersion ==
    /\ [](manifest_file # TruncatedFile
            => /\ \/ Persisted = StartValue
                  \/ Persisted # None /\ Persisted[1] \in AttemptedVersions
               /\ VersionRank(Persisted) >= VersionRank(StartValue)
               /\ \A v \in AttemptedVersions :
                     (\A w \in AttemptedVersions : w <= v) => VersionRank(Persisted) <= v
               /\ (upload_successful /\ persist_result = "ok")
                     => /\ Persisted = Some(attempt_version)
                        /\ attempt_log[Len(attempt_log)].version = attempt_version
                        /\ attempt_log[Len(attempt_log)].outcome = "all_ok")
    /\ [][(manifest_file # TruncatedFile /\ manifest_file' # TruncatedFile)
            => \/ Persisted' = Persisted
               \/ /\ pc = "persist"
                  /\ uploaded_count > 0
                  /\ \E i \in DOMAIN tasks : tasks[i].result.success
                  /\ Persisted' = Some(attempt_version)
                  /\ VersionRank(Persisted') > VersionRank(Persisted)]_vars

C35_Witness ==
    /\ pc = "exit_success"
    /\ persist_result = "ok"
    /\ Len(attempt_log) >= 3
    /\ last_version # None
    /\ Persisted = Some(last_version[1] + Len(attempt_log))
    /\ \E k \in DOMAIN attempt_log : attempt_log[k].outcome = "mixed"

\* ---------------------------------------------------------------- C36
\* C36: over invocations on one manifest in which no write of the manifest
\* fails, an attempt never runs at a version at which an earlier attempt, of
\* this or of an earlier invocation, uploaded a file.
C36_NoVersionReuse ==
    InAttempt
        => /\ attempt_version \notin prior_uploads
           /\ \A k \in DOMAIN attempt_log : attempt_log[k].version # attempt_version

\* ---------------------------------------------------------------- C37
SucceededTasks == {i \in DOMAIN tasks : tasks[i].state = "collected" /\ tasks[i].result.success}
FailedTasks == {i \in DOMAIN tasks : tasks[i].state = "collected" /\ ~tasks[i].result.success}

\* upload_experiment_data has returned its tuple to main
TupleReturned == pc \in {"persist", "decide"}

\* C37: in whatever order the tasks complete, each completed task is counted
\* once, as uploaded or as failed; when upload_experiment_data returns, the
\* uploaded count plus the number of failed files is the number of files of
\* the batch, the success flag is true exactly when no task failed, and the
\* conflict flag is true exactly when a task failed with the code 403 or 409.
C37_Accounting ==
    /\ (pc = "uploading" \/ TupleReturned)
          => /\ uploaded_count = Cardinality(SucceededTasks)
             /\ Len(failed_files) = Cardinality(FailedTasks)
             /\ \A i \in FailedTasks :
                   Cardinality({k \in DOMAIN failed_files :
                                   failed_files[k] = tasks[i].local_file}) = 1
             /\ \A k \in DOMAIN failed_files :
                   \E i \in FailedTasks : failed_files[k] = tasks[i].local_file
    /\ TupleReturned
          => /\ AllCollected
             /\ uploaded_count + Len(failed_files) = Len(upload_files)
             /\ Success <=> FailedTasks = {}
             /\ HadConflictErrors
                   <=> \E i \in FailedTasks : tasks[i].result.error_code \in {"403", "409"}

\* both files failed, the second before the first, one of them with 403 and
\* none with 409
C37_Witness ==
    /\ TupleReturned
    /\ Len(failed_files) = 2
    /\ failed_files[1] = upload_files[2]
    /\ conflict_error_codes = {"403"}
    /\ \E i \in FailedTasks : tasks[i].result.error_code = "other"

\* ---------------------------------------------------------------- C38
\* the events of the readable input files that are no messages and none of
\* the session records, as (file, line number) pairs
InputOtherLines ==
    UNION {{<<f.sid, i>> : i \in {j \in DOMAIN f.lines :
                /\ f.lines[j].parses
                /\ Get(f.lines[j].event, "type", "") \notin
                      MessageTypes \cup {"session_start", "session_summary", "session_end"}}}
           : f \in {g \in InputFiles : g.readable}}

InputLine(p) == (CHOOSE g \in InputFiles : g.sid = p[1]).lines[p[2]]

\* C38: the merged consolidated file holds every message event (user,
\* assistant, assistant_thinking) of every readable input file exactly once,
\* so it has as many message lines as the inputs have together; an input event
\* of any other kind is not in the merged file.
C38_MessageConservation ==
    \A f \in MergedFiles :
        /\ \A p \in InputMessageLines :
              Cardinality({k \in DOMAIN f.lines :
                              /\ IsMessageLine(f.lines[k])
                              /\ f.lines[k].event["uuid"] = InputLine(p).event["uuid"]
                              /\ f.lines[k].event["type"] = InputLine(p).event["type"]}) = 1
        /\ Len(MessageLines(f)) = Cardinality(InputMessageLines)
        /\ \A k \in DOMAIN f.lines :
              /\ f.lines[k].parses
              /\ f.lines[k].event["type"] \in
                    MessageTypes \cup {"session_start", "session_summary", "session_end"}
              /\ \A p \in InputOtherLines :
                    "uuid" \in DOMAIN f.lines[k].event
                        => f.lines[k].event["uuid"] # InputLine(p).event["uuid"]

\* a merge of two files, one with an assistant_thinking message and one with
\* an event that is no message
C38_Witness ==
    /\ MergedFiles # {}
    /\ Cardinality(InputFiles) = 2
    /\ InputOtherLines # {}
    /\ \E p \in InputMessageLines :
          /\ InputLine(p).event["type"] = "assistant_thinking"
          /\ \A q \in InputOtherLines : q[1] # p[1]

\* ---------------------------------------------------------------- C39
\* the lane was merged by an earlier call: its originals are in
\* original_sessions/
MergedBefore(lane) == lane.backup # {}

\* C39: after a successful merge of a lane its directory holds exactly one
\* consolidated file; a later merge_sessions on the lane finds that file only
\* (nothing from original_sessions/), returns without a merge and changes
\* nothing in the directory or the backup; a later two-lane run leaves the
\* lane as it is and reports it as needing no merge.
C39_Idempotent ==
    /\ [](/\ backup_dir # {}
             => /\ Cardinality(Consolidated(lane_dir)) = 1
                /\ merge_result # "true"
                      => /\ processed_files \in {<<>>, <<MergedSessionId>>}
                         /\ m_pc \in {"off", "idle", "done"}
                         /\ m_pc = "done" => merge_result = "false"
          /\ \A model \in {"model_a", "model_b"} :
                /\ MergedBefore(logs_dir[model])
                      => Cardinality(Consolidated(logs_dir[model].files)) = 1
                /\ (model \in DOMAIN lane_message
                       /\ lane_message[model] = "no merge needed")
                      => /\ results[model] = "True"
                         /\ model \in DOMAIN summary_lines => summary_lines[model] = "OK")
    /\ [][/\ (target = "lane" /\ backup_dir # {})
             => UNCHANGED <<lane_dir, backup_dir, backup_exists>>
          /\ \A model \in {"model_a", "model_b"} :
                MergedBefore(logs_dir[model]) => logs_dir'[model] = logs_dir[model]
          /\ (x_pc = "lanes" /\ lane_no <= Len(Models)
                 /\ MergedBefore(logs_dir[Models[lane_no]]))
             => /\ x_pc' = "lanes"
                /\ lane_no' = lane_no + 1
                /\ results'[Models[lane_no]] = "True"
                /\ lane_message'[Models[lane_no]] = "no merge needed"
                /\ UNCHANGED merge_vars]_vars

\* the second two-lane run has ended and has reported model_a, merged by the
\* first run, as needing no merge
C39_Witness ==
    /\ target = "experiment"
    /\ x_pc = "exit"
    /\ MergedBefore(logs_dir["model_a"])
    /\ lane_message["model_a"] = "no merge needed"
    /\ summary_lines["model_a"] = "OK"
    /\ exit_status = "0"

\* merge_sessions was called again on a merged directory and has returned
C39_WitnessDirect ==
    /\ target = "lane"
    /\ backup_dir # {}
    /\ m_pc = "done"
    /\ merge_result = "false"
    /\ processed_files = <<MergedSessionId>>

\* ---------------------------------------------------------------- C40
\* C40: within one destination folder two different (task id, version) pairs
\* never have the same remote path, so a task T at version 1 and a task T_v1
\* at version 0 do not meet on a path.
C40_PathInjective ==
    (p_pc = "returned" /\ p_call.first # p_call.second)
        => p_paths[1][1] # p_paths[1][2]
====
